---- MODULE Spec2Model ----
(***************************************************************************)
(* Model of the pappardelle hook scripts (src/hooks):                      *)
(*   update-status.py             status dispatcher and status store       *)
(*   post-plan-to-tracker.py      plan-posting hook (leaf-to-root scan)    *)
(*   comment-question-answered.py question hook (root-to-leaf scan)        *)
(*                                                                         *)
(* Text that the code inspects character by character (paths, path         *)
(* segments, git output, workspace identifiers) is a sequence of           *)
(* one-character strings.  Text the code only passes along (event names,   *)
(* tool names, status values, session ids) is a TLA+ string.               *)
(***************************************************************************)
EXTENDS Integers, Sequences, FiniteSets, TLC

VARIABLES
    store,    \* status directory: file name (workspace identifier) -> file content
    clock,    \* wall clock in ms, as read by datetime.now()
    count,    \* number of dispatcher invocations delivered so far
    last,     \* log of the most recent sequential invocation of main(): its
              \* input, the time it read, the file it wrote, that file's length
              \* in lines before the write, and its exit status
    procs,    \* overlapping invocations of main(): process -> its local state
    flushed,  \* file name -> process whose close() flushed that file most recently
    pair,     \* two runs of main() on the same store (self-composition)
    rcwd,     \* resolver harness: the working directory os.getcwd() returns
    rres,     \* resolver harness: which resolver ran and what it returned
    meta,     \* ~/.pappardelle/issue-meta: issue key -> content of <key>.json
    tracker   \* the tracker CLI calls made so far, each with its outcome

vars == <<store, clock, count, last, procs, flushed, pair, rcwd, rres, meta, tracker>>

-----------------------------------------------------------------------------
(* Python str predicates and helpers, on sequences of characters.          *)

UpperChars == {"A", "B", "C", "D", "E", "F", "G", "H", "I", "J", "K", "L", "M",
               "N", "O", "P", "Q", "R", "S", "T", "U", "V", "W", "X", "Y", "Z"}
LowerChars == {"a", "b", "c", "d", "e", "f", "g", "h", "i", "j", "k", "l", "m",
               "n", "o", "p", "q", "r", "s", "t", "u", "v", "w", "x", "y", "z"}
DigitChars == {"0", "1", "2", "3", "4", "5", "6", "7", "8", "9"}
SpaceChars == {" ", "\n"}

\* Python None where a character sequence is expected.
NoneSeq == <<"None">>
\* Python None where a plain string is expected.
NoneStr == "<None>"

\* str.isupper(): at least one cased character and no lowercase one.
IsUpper(s) ==
    /\ \E i \in 1..Len(s) : s[i] \in UpperChars
    /\ \A i \in 1..Len(s) : s[i] \notin LowerChars

\* str.isalpha(): non-empty and every character alphabetic.
IsAlpha(s) ==
    /\ Len(s) > 0
    /\ \A i \in 1..Len(s) : s[i] \in UpperChars \cup LowerChars

\* str.isdigit(): non-empty and every character a digit.
IsDigit(s) ==
    /\ Len(s) > 0
    /\ \A i \in 1..Len(s) : s[i] \in DigitChars

\* sep in s
Contains(s, sep) == \E i \in 1..Len(s) : s[i] = sep

\* index of the first occurrence of sep in s, 0 when there is none
RECURSIVE FindFrom(_, _, _)
FindFrom(s, sep, i) ==
    IF i > Len(s) THEN 0
    ELSE IF s[i] = sep THEN i
    ELSE FindFrom(s, sep, i + 1)

Find(s, sep) == FindFrom(s, sep, 1)

\* s.split(sep): all the pieces between separators, empty pieces included
RECURSIVE Split(_, _)
Split(s, sep) ==
    LET i == Find(s, sep) IN
    IF i = 0 THEN <<s>>
    ELSE <<SubSeq(s, 1, i - 1)>> \o Split(SubSeq(s, i + 1, Len(s)), sep)

\* s.split(sep)[0]
SplitFirst(s, sep) == Head(Split(s, sep))

\* s.split(sep, 1)[1], for s that contains sep
SplitRest(s, sep) == SubSeq(s, Find(s, sep) + 1, Len(s))

\* s.strip()
RECURSIVE LStrip(_)
LStrip(s) ==
    IF s # <<>> /\ Head(s) \in SpaceChars THEN LStrip(Tail(s)) ELSE s

RECURSIVE RStrip(_)
RStrip(s) ==
    IF s # <<>> /\ s[Len(s)] \in SpaceChars
    THEN RStrip(SubSeq(s, 1, Len(s) - 1))
    ELSE s

Strip(s) == LStrip(RStrip(s))

\* os.path.basename(p): what follows the last "/"
Basename(p) ==
    LET pieces == Split(p, "/") IN pieces[Len(pieces)]

\* reversed(parts)
Reversed(parts) == [i \in 1..Len(parts) |-> parts[Len(parts) + 1 - i]]

-----------------------------------------------------------------------------
(* Issue-key scans of the working directory.                               *)

\* update-status.py, the test of one path component (lines 57-61)
LooksLikeIssueUpdateStatus(part) ==
    /\ part # <<>>
    /\ Contains(part, "-")
    /\ LET prefix == SplitFirst(part, "-")
           suffix == IF Contains(part, "-") THEN SplitRest(part, "-") ELSE <<>>
       IN  IsUpper(prefix) /\ IsAlpha(prefix) /\ IsDigit(suffix)

\* post-plan-to-tracker.py, the test of one path component (lines 36-39)
LooksLikeIssuePostPlan(part) ==
    /\ part # <<>>
    /\ Contains(part, "-")
    /\ LET prefix == SplitFirst(part, "-")
           suffix == SplitRest(part, "-")
       IN  Len(prefix) >= 2 /\ IsUpper(prefix) /\ IsAlpha(prefix) /\ IsDigit(suffix)

\* comment-question-answered.py, the test of one path component (lines 36-40)
LooksLikeIssueComment(part) ==
    /\ part # <<>>
    /\ Contains(part, "-")
    /\ LET prefix == SplitFirst(part, "-")
           suffix == IF Contains(part, "-") THEN SplitRest(part, "-") ELSE <<>>
       IN  IsUpper(prefix) /\ IsAlpha(prefix) /\ IsDigit(suffix)

\* the for loop over parts, hits being the positions whose component passes
\* the test: the loop returns at the first of them, and None when there is none
FirstHit(parts, hits) ==
    IF hits = {} THEN NoneSeq
    ELSE parts[CHOOSE i \in hits : \A j \in hits : i <= j]

\* update-status.py get_workspace_name, the path scan (root to leaf)
ScanWorkspaceName(cwd) ==
    LET parts == Split(cwd, "/") IN
    FirstHit(parts, {i \in 1..Len(parts) : LooksLikeIssueUpdateStatus(parts[i])})

\* post-plan-to-tracker.py get_issue_key (leaf to root)
GetIssueKeyPostPlan(cwd) ==
    LET parts == Reversed(Split(cwd, "/")) IN
    FirstHit(parts, {i \in 1..Len(parts) : LooksLikeIssuePostPlan(parts[i])})

\* bug variant: the components are scanned leaf to root
GetIssueKeyCommentLeafFirst(cwd) ==
    LET parts == Reversed(Split(cwd, "/")) IN
    FirstHit(parts, {i \in 1..Len(parts) : LooksLikeIssueComment(parts[i])})

\* comment-question-answered.py get_issue_key (root to leaf)
GetIssueKeyComment(cwd) ==
    LET parts == Split(cwd, "/") IN
    FirstHit(parts, {i \in 1..Len(parts) : LooksLikeIssueComment(parts[i])})

-----------------------------------------------------------------------------
(* update-status.py: workspace identity.                                   *)

Unknown == <<"u", "n", "k", "n", "o", "w", "n">>

\* bug variant: the branch name is not qualified with the repository name
GetWorkspaceNameBareBranch(cwd, git) ==
    IF ScanWorkspaceName(cwd) # NoneSeq THEN ScanWorkspaceName(cwd)
    ELSE IF git.branch.rc = "ok" /\ Strip(git.branch.out) # <<>>
         THEN Strip(git.branch.out)
    ELSE Unknown

\* bug variant: without a repository name the branch name is given up
GetWorkspaceNameUnknownWithoutRepo(cwd, git) ==
    IF ScanWorkspaceName(cwd) # NoneSeq THEN ScanWorkspaceName(cwd)
    ELSE IF /\ git.branch.rc = "ok" /\ Strip(git.branch.out) # <<>>
            /\ git.toplevel.rc = "ok" /\ Basename(Strip(git.toplevel.out)) # <<>>
         THEN Basename(Strip(git.toplevel.out)) \o <<"-">> \o Strip(git.branch.out)
    ELSE Unknown

\* bug variant: the toplevel query is not wrapped in try/except, so what it
\* raises leaves get_workspace_name without a return value
GetWorkspaceNameUncaught(cwd, git) ==
    IF ScanWorkspaceName(cwd) # NoneSeq THEN ScanWorkspaceName(cwd)
    ELSE IF git.branch.rc = "ok" /\ Strip(git.branch.out) # <<>>
         THEN IF git.toplevel.rc = "raise" THEN NoneSeq
              ELSE IF git.toplevel.rc = "ok" /\ Basename(Strip(git.toplevel.out)) # <<>>
                   THEN Basename(Strip(git.toplevel.out)) \o <<"-">> \o Strip(git.branch.out)
              ELSE Strip(git.branch.out)
    ELSE Unknown

\* get_workspace_name(): cwd is os.getcwd(); git.branch and git.toplevel are the
\* outcomes of the two subprocess.run calls, each [rc, out] with rc "ok" (return
\* code 0), "fail" (non-zero return code) or "raise" (timeout, git not installed)
GetWorkspaceName(cwd, git) ==
    LET issue == ScanWorkspaceName(cwd)
        branch == Strip(git.branch.out)
        repo_name == Basename(Strip(git.toplevel.out))
    IN  IF issue # NoneSeq THEN issue
        ELSE IF git.branch.rc = "ok" /\ branch # <<>>
             THEN IF git.toplevel.rc = "ok" /\ repo_name # <<>>
                  THEN repo_name \o <<"-">> \o branch
                  ELSE branch
        ELSE Unknown

-----------------------------------------------------------------------------
(* update-status.py: the status store.                                     *)

\* bug variant: one status file for all workspaces
StatusFileShared(workspace) == <<"s", "t", "a", "t", "u", "s", ".", "j", "s", "o", "n">>

\* status_dir / f"{workspace}.json": the file name inside the status directory
StatusFile(workspace) == workspace \o <<".", "j", "s", "o", "n">>

\* dict.get(key, default)
Get(d, key, default) == IF key \in DOMAIN d THEN d[key] ELSE default

\* Python truthiness of an Optional[str]
Truthy(v) == v # NoneStr /\ v # ""

\* bug variant: the optional members are tested with "is not None"
BuildStateNotNone(workspace, status, tool_name, session_id, event, cwd, environ, now) ==
    <<  <<"sessionId",
          IF Truthy(session_id) THEN session_id
          ELSE Get(environ, "CLAUDE_SESSION_ID", "unknown")>>,
        <<"workspaceName", workspace>>,
        <<"status", status>>,
        <<"lastUpdate", now>> >>
    \o (IF tool_name # NoneStr THEN << <<"currentTool", tool_name>> >> ELSE <<>>)
    \o (IF event # NoneStr THEN << <<"event", event>> >> ELSE <<>>)
    \o (IF cwd # NoneStr THEN << <<"cwd", cwd>> >> ELSE <<>>)

\* update_status(), lines 123-135: the state dict as its items in insertion order
BuildState(workspace, status, tool_name, session_id, event, cwd, environ, now) ==
    <<  <<"sessionId",
          IF Truthy(session_id) THEN session_id
          ELSE Get(environ, "CLAUDE_SESSION_ID", "unknown")>>,
        <<"workspaceName", workspace>>,
        <<"status", status>>,
        <<"lastUpdate", now>> >>
    \o (IF Truthy(tool_name) THEN << <<"currentTool", tool_name>> >> ELSE <<>>)
    \o (IF Truthy(event) THEN << <<"event", event>> >> ELSE <<>>)
    \o (IF Truthy(cwd) THEN << <<"cwd", cwd>> >> ELSE <<>>)

\* json.dump(state, f, indent=2): an opening brace, one line per item, a closing
\* brace.  A file's content is its sequence of lines.
JsonDump(state) == << <<"{">> >> \o state \o << <<"}">> >>

\* bug variant: the file is opened without truncation (mode "r+")
OpenKeep(st, file) ==
    [f \in DOMAIN st \cup {file} |-> IF f \in DOMAIN st THEN st[f] ELSE <<>>]

\* open(status_file, "w"): the file exists and is empty afterwards
OpenTruncate(st, file) ==
    [f \in DOMAIN st \cup {file} |-> IF f = file THEN <<>> ELSE st[f]]

\* bug variant: the file is opened for appending (mode "a")
FlushAppend(content, buf) == content \o buf

\* the buffered text reaches the file when it is closed: one write at the file
\* object's own offset 0, which replaces the leading part of what the file
\* holds at that moment and keeps whatever lies beyond the written length
FlushAtZero(content, buf) ==
    buf \o SubSeq(content, Len(buf) + 1, Len(content))

CloseFlush(st, file, buf) ==
    [f \in DOMAIN st \cup {file} |->
        IF f = file
        THEN FlushAtZero(IF file \in DOMAIN st THEN st[file] ELSE <<>>, buf)
        ELSE st[f]]

\* json.loads of a file: the items of the object it holds, or "unparsable"
IsCompleteObject(content) ==
    /\ Len(content) >= 2
    /\ content[1] = <<"{">>
    /\ content[Len(content)] = <<"}">>
    /\ \A i \in 2..(Len(content) - 1) : Len(content[i]) = 2

\* value of key in a parsed file; NoneStr when the file has no such item
Field(content, key) ==
    LET hits == {i \in 1..Len(content) :
                    Len(content[i]) = 2 /\ content[i][1] = key} IN
    IF ~IsCompleteObject(content) \/ hits = {} THEN NoneStr
    ELSE content[CHOOSE i \in hits : TRUE][2]

-----------------------------------------------------------------------------
(* update-status.py: where the status directory is.  A file system is a    *)
(* function from absolute paths to what is there: Dir for a directory, the *)
(* sequence of its lines for a regular file.  The root directory "/" is    *)
(* the empty path and always there.                                        *)

Dir == << <<"<dir>">> >>

\* Path.home()
Home == <<"/", "h">>

\* Path.home() / ".pappardelle" / "claude-status"
DefaultStatusDir == Home \o <<"/", ".", "p", "a", "p", "p", "a", "r", "d", "e", "l", "l", "e", "/", "c", "l", "a", "u", "d", "e", "-", "s", "t", "a", "t", "u", "s">>

\* get_status_dir(): os.environ.get gives None for an unset variable, and
\* `if env_dir` is false for None and for the empty string
GetStatusDir(environ) ==
    LET env_dir == Get(environ, "PAPPARDELLE_STATUS_DIR", NoneSeq) IN
    IF env_dir # NoneSeq /\ env_dir # <<>> THEN env_dir ELSE DefaultStatusDir

\* the directories above path, the root excluded
Ancestors(path) ==
    {SubSeq(path, 1, i - 1) : i \in {k \in 2..Len(path) : path[k] = "/"}}

\* path.parent
Parent(path) ==
    LET slashes == {k \in 1..Len(path) : path[k] = "/"} IN
    SubSeq(path, 1, (CHOOSE k \in slashes : \A j \in slashes : j <= k) - 1)

IsDir(fs, path) == path = <<>> \/ (path \in DOMAIN fs /\ fs[path] = Dir)

\* status_dir.mkdir(parents=True, exist_ok=True): raises (FileExistsError,
\* NotADirectoryError) when the path or one above it is a regular file, and
\* then creates nothing
Mkdir(fs, dir) ==
    LET wanted == Ancestors(dir) \cup {dir} IN
    IF \A d \in wanted : d \in DOMAIN fs => fs[d] = Dir
    THEN [ok |-> TRUE,
          fs |-> [q \in DOMAIN fs \cup wanted |->
                    IF q \in DOMAIN fs THEN fs[q] ELSE Dir]]
    ELSE [ok |-> FALSE, fs |-> fs]

\* status_dir / f"{workspace}.json"
StatusPath(status_dir, file) == status_dir \o <<"/">> \o file

\* open(status_file, "w") raises (FileNotFoundError, IsADirectoryError) unless
\* the directory part of the path is a directory and the path itself is not
CanOpen(fs, path) == IsDir(fs, Parent(path)) /\ ~IsDir(fs, path)

\* update_status() from line 118 on, given the record p that main() and the
\* lines before have assembled: an exception that mkdir or open raises is not
\* caught anywhere, so the process ends with a traceback and status 1
UpdateStatusIn(fs, environ, p) ==
    LET status_dir == GetStatusDir(environ)
        made == Mkdir(fs, status_dir)
        status_file == StatusPath(status_dir, p.file)
    IN  IF ~made.ok THEN [fs |-> fs, path |-> NoneSeq, exit |-> 1]
        ELSE IF ~CanOpen(made.fs, status_file)
             THEN [fs |-> made.fs, path |-> NoneSeq, exit |-> 1]
        ELSE [fs |-> CloseFlush(OpenTruncate(made.fs, status_file), status_file,
                                JsonDump(p.state)),
              path |-> status_file, exit |-> 0]

-----------------------------------------------------------------------------
(* The environment of an invocation: working directories, git, stdin.      *)

\* "/" + "/".join(segments): the absolute path with these components
RECURSIVE Path(_)
Path(segments) ==
    IF segments = <<>> THEN <<>>
    ELSE <<"/">> \o Head(segments) \o Path(Tail(segments))

STA123 == <<"S", "T", "A", "-", "1", "2", "3">>
MY5 == <<"M", "Y", "-", "5">>
X99 == <<"X", "-", "9", "9">>
StardustLabs == <<"s", "t", "a", "r", "d", "u", "s", "t", "-", "l", "a", "b", "s">>
Master == <<"m", "a", "s", "t", "e", "r">>
FeatureLogin == <<"f", "e", "a", "t", "u", "r", "e", "/", "l", "o", "g", "i", "n">>

GitOk(out) == [rc |-> "ok", out |-> out \o <<"\n">>]
GitFail == [rc |-> "fail", out |-> <<>>]
GitRaise == [rc |-> "raise", out |-> <<>>]

\* an issue worktree, ~/.worktrees/stardust-labs/STA-123
Worktree ==
    [cwd |-> Path(<<<<"w">>, StardustLabs, STA123>>),
     git |-> [branch |-> GitOk(STA123),
              toplevel |-> GitOk(Path(<<<<"w">>, StardustLabs, STA123>>))]]

\* the main checkout of stardust-labs on master
MainCheckout ==
    [cwd |-> Path(<<<<"c", "s">>, StardustLabs>>),
     git |-> [branch |-> GitOk(Master),
              toplevel |-> GitOk(Path(<<<<"c", "s">>, StardustLabs>>))]]

\* the same checkout when the toplevel query fails
NoToplevel ==
    [cwd |-> MainCheckout.cwd,
     git |-> [branch |-> GitOk(Master), toplevel |-> GitFail]]

\* a directory outside any repository, and a machine without git
NoRepo ==
    [cwd |-> MainCheckout.cwd, git |-> [branch |-> GitFail, toplevel |-> GitFail]]
NoGit ==
    [cwd |-> MainCheckout.cwd, git |-> [branch |-> GitRaise, toplevel |-> GitRaise]]

Places == {Worktree, MainCheckout, NoToplevel, NoRepo, NoGit}

\* the main checkout of stardust-labs on the branch feature/login
FeatureCheckout ==
    [cwd |-> MainCheckout.cwd,
     git |-> [branch |-> GitOk(FeatureLogin),
              toplevel |-> MainCheckout.git.toplevel]]

\* get_workspace_name() in each place, computed once per place
WorkspaceNameIn ==
    [place \in Places \cup {FeatureCheckout} |->
        GetWorkspaceName(place.cwd, place.git)]

Absent == "<absent>"

\* the JSON object on stdin with the given members; Absent leaves a member out
InputData(ev, nt, tool, sid, cwd) ==
    LET full == [hook_event_name |-> ev, notification_type |-> nt,
                 tool_name |-> tool, session_id |-> sid, cwd |-> cwd]
    IN  [k \in {x \in DOMAIN full : full[x] # Absent} |-> full[k]]

EventNames ==
    {"UserPromptSubmit", "PreToolUse", "PostToolUse", "PermissionRequest",
     "Stop", "SubagentStop", "SessionStart", "SessionEnd", "PreCompact",
     "Notification", "TeammateIdle", Absent}
NotificationTypes == {"idle_prompt", "permission_prompt", "auth_success", Absent}
ToolNames == {"Bash", "AskUserQuestion", Absent}

Invocation(stdin, args, place) ==
    [stdin |-> stdin, args |-> args, cwd |-> place.cwd, git |-> place.git,
     environ |-> <<>>]

Object(data) == [kind |-> "object", data |-> data]

\* three events: one with every optional member, one with none that is
\* written, one that is ignored
LongEvent ==
    Object(InputData("PreToolUse", Absent, "Bash", "sess-1", "/w/STA-123"))
ShortEvent == Object(InputData("Stop", Absent, Absent, "sess-1", Absent))
SkippedEvent ==
    Object(InputData("Notification", "permission_prompt", Absent, "sess-1", Absent))

\* every event kind with every notification subtype, in the worktree
EventInvocations ==
    {Invocation(Object(InputData(ev, nt, "Bash", "sess-1", "/w/STA-123")),
                <<>>, Worktree) :
        ev \in EventNames, nt \in NotificationTypes}

\* the events that carry a tool, with every tool
ToolInvocations ==
    {Invocation(Object(InputData(ev, Absent, tool, "sess-1", "/w/STA-123")),
                <<>>, Worktree) :
        ev \in {"PreToolUse", "PostToolUse", "PermissionRequest"},
        tool \in ToolNames}

\* events that leave optional members out, with and without an override
SparseInvocations ==
    {Invocation(Object(InputData(ev, Absent, tool, "sess-1", cwd)), args, Worktree) :
        ev \in {"PreToolUse", Absent}, tool \in {"Bash", Absent},
        cwd \in {"/w/STA-123", Absent},
        args \in {<<>>, <<"error">>, <<"running_tool", "--tool", "Edit">>}}

\* stdin that is empty, not JSON, or JSON but not an object
BadStdinInvocations ==
    {Invocation([kind |-> k], args, Worktree) :
        k \in {"empty", "garbage", "nonobject"},
        args \in {<<>>, <<"waiting_for_input">>}}

\* one event in every place
PlaceInvocations ==
    {Invocation(Object(InputData("Stop", Absent, Absent, "sess-1", "/cs")),
                <<>>, place) : place \in Places}

\* members that are there but empty ("") or null, with and without an override
EmptyMemberInvocations ==
    {Invocation(Object(InputData("", Absent, "", "sess-1", "")), args, Worktree) :
        args \in {<<>>, <<"running_tool", "--tool", "">>, <<"running_tool", "--tool">>}}
    \cup {Invocation(Object(InputData("PreToolUse", Absent, NoneStr, "sess-1", NoneStr)),
                      <<>>, Worktree)}

\* an override on events that the table ignores, and with "--tool" first
OverrideIgnoredInvocations ==
    {Invocation(Object(InputData(e[1], e[2], "Bash", "sess-1", "/w/STA-123")),
                args, Worktree) :
        e \in {<<"Notification", "permission_prompt">>,
                <<"Notification", "auth_success">>, <<"TeammateIdle", Absent>>},
        args \in {<<"waiting_for_input">>, <<"--tool", "Edit">>}}

\* session_id given, empty, null and left out, with CLAUDE_SESSION_ID unset,
\* set and set to the empty string
SessionInvocations ==
    {[Invocation(Object(InputData("Stop", Absent, Absent, sid, Absent)),
                 <<>>, Worktree) EXCEPT !.environ = environ] :
        sid \in {"sess-1", "", NoneStr, Absent},
        environ \in {<<>>, [CLAUDE_SESSION_ID |-> "env-1"],
                     [CLAUDE_SESSION_ID |-> ""]}}

Invocations ==
    EventInvocations \cup ToolInvocations \cup SparseInvocations
        \cup BadStdinInvocations \cup PlaceInvocations \cup EmptyMemberInvocations
        \cup OverrideIgnoredInvocations \cup SessionInvocations

-----------------------------------------------------------------------------
(* update-status.py: main().                                               *)

Ignore == "<exit 0, no write>"

\* main(), lines 164-193: the if/elif chain over the event name; Ignore where
\* the code calls sys.exit(0) before any write
EventTable(hook_event, notification_type) ==
    CASE hook_event = "UserPromptSubmit" -> "processing"
      [] hook_event = "PreToolUse" -> "running_tool"
      [] hook_event = "PostToolUse" -> "processing"
      [] hook_event = "PermissionRequest" -> "waiting_for_approval"
      [] hook_event = "Stop" -> "waiting_for_input"
      [] hook_event = "SubagentStop" -> "waiting_for_input"
      [] hook_event = "SessionStart" -> "waiting_for_input"
      [] hook_event = "SessionEnd" -> "ended"
      [] hook_event = "PreCompact" -> "compacting"
      [] hook_event = "Notification" ->
            IF notification_type = "permission_prompt" THEN Ignore
            ELSE IF notification_type = "idle_prompt" THEN "waiting_for_input"
            ELSE Ignore
      [] OTHER -> Ignore

\* bug variant: every Notification counts as an idle prompt
StatusFromEventAnyNotification(input_data) ==
    IF Get(input_data, "hook_event_name", "") = "Notification"
    THEN "waiting_for_input"
    ELSE EventTable(Get(input_data, "hook_event_name", ""),
                    Get(input_data, "notification_type", NoneStr))

\* bug variant: a permission request of the question tool waits for input
StatusFromEventAskUser(input_data) ==
    IF /\ Get(input_data, "hook_event_name", "") = "PermissionRequest"
       /\ Get(input_data, "tool_name", NoneStr) = "AskUserQuestion"
    THEN "waiting_for_input"
    ELSE EventTable(Get(input_data, "hook_event_name", ""),
                    Get(input_data, "notification_type", NoneStr))

\* bug variant: an event kind the chain does not know falls through to a write
StatusFromEventFallThrough(input_data) ==
    LET status == EventTable(Get(input_data, "hook_event_name", ""),
                             Get(input_data, "notification_type", NoneStr))
    IN  IF /\ status = Ignore
           /\ Get(input_data, "hook_event_name", "") # "Notification"
        THEN "processing"
        ELSE status

\* bug variant: the final else writes the status "unknown" instead of exiting
StatusFromEventUnknownStatus(input_data) ==
    LET status == EventTable(Get(input_data, "hook_event_name", ""),
                             Get(input_data, "notification_type", NoneStr))
    IN  IF /\ status = Ignore
           /\ Get(input_data, "hook_event_name", "") # "Notification"
        THEN "unknown"
        ELSE status

\* main(), lines 161-193: the status derived from the event on stdin
StatusFromEvent(input_data) ==
    EventTable(Get(input_data, "hook_event_name", ""),
               Get(input_data, "notification_type", NoneStr))

\* sys.argv.index("--tool") over the arguments after the script name
RECURSIVE IndexOf(_, _, _)
IndexOf(args, x, i) ==
    IF i > Len(args) THEN 0
    ELSE IF args[i] = x THEN i
    ELSE IndexOf(args, x, i + 1)

\* main(), lines 152-157: the tool name of the override path
ToolFromArgs(args) ==
    LET tool_idx == IndexOf(args, "--tool", 1) IN
    IF tool_idx > 0 /\ tool_idx + 1 <= Len(args) THEN args[tool_idx + 1]
    ELSE NoneStr

\* main(), lines 143-146: json.load(sys.stdin); empty or malformed text gives {}
LoadStdin(stdin) ==
    IF stdin.kind = "object" THEN stdin.data ELSE <<>>

\* bug variant: the override path falls back to the event's tool_name
DecideInputTool(input_data, args) ==
    IF Len(args) > 0
    THEN [status |-> args[1],
          tool_name |-> IF ToolFromArgs(args) # NoneStr THEN ToolFromArgs(args)
                        ELSE Get(input_data, "tool_name", NoneStr)]
    ELSE [status |-> StatusFromEvent(input_data),
          tool_name |-> Get(input_data, "tool_name", NoneStr)]

\* bug variant: the event is classified before the override is looked at
DecideDerivesFirst(input_data, args) ==
    IF StatusFromEvent(input_data) = Ignore
    THEN [status |-> Ignore, tool_name |-> NoneStr]
    ELSE IF Len(args) > 0
    THEN [status |-> args[1], tool_name |-> ToolFromArgs(args)]
    ELSE [status |-> StatusFromEvent(input_data),
          tool_name |-> Get(input_data, "tool_name", NoneStr)]

\* main(), lines 151-193: [status, tool_name] the write is called with; status
\* is Ignore when main() exits before update_status.  args is sys.argv[1:].
Decide(input_data, args) ==
    IF Len(args) > 0
    THEN [status |-> args[1], tool_name |-> ToolFromArgs(args)]
    ELSE [status |-> StatusFromEvent(input_data),
          tool_name |-> Get(input_data, "tool_name", NoneStr)]

\* main() up to the point where update_status() has assembled the record
\* (line 135): the file it is about to open (NoneSeq when main() has exited
\* before), the record, and the exit status reached so far.
\* inv = [stdin, args, cwd, git, environ]; now is datetime.now() in ms.
\* A JSON value that is not an object has no .get: the AttributeError ends
\* the process with status 1 before any write.
Prepare(inv, now) ==
    IF inv.stdin.kind = "nonobject"
    THEN [file |-> NoneSeq, workspace |-> NoneSeq, state |-> <<>>, exit |-> 1]
    ELSE
    LET input_data == LoadStdin(inv.stdin)
        d == Decide(input_data, inv.args)
        session_id == Get(input_data, "session_id",
                          Get(inv.environ, "CLAUDE_SESSION_ID", NoneStr))
        event_name == Get(input_data, "hook_event_name", NoneStr)
        cwd == Get(input_data, "cwd", NoneStr)
        workspace == WorkspaceNameIn[[cwd |-> inv.cwd, git |-> inv.git]]
    IN  IF d.status = Ignore
        THEN [file |-> NoneSeq, workspace |-> NoneSeq, state |-> <<>>, exit |-> 0]
        ELSE [file |-> StatusFile(workspace), workspace |-> workspace,
              state |-> BuildState(workspace, d.status, d.tool_name, session_id,
                                   event_name, cwd, inv.environ, now),
              exit |-> 0]

\* The status directory has no subdirectories (nothing creates one), so
\* open(status_file, "w") raises FileNotFoundError when the file name has a
\* directory part.
OpenRaises(file) == Contains(file, "/")

\* One whole invocation of main() that nothing overlaps: what it leaves in
\* the store, the file it wrote and the identifier it resolved (NoneSeq when
\* it wrote nothing) and its exit status.
Main(st, inv, now) ==
    LET p == Prepare(inv, now) IN
    IF p.file = NoneSeq
    THEN [store |-> st, file |-> NoneSeq, workspace |-> NoneSeq, exit |-> p.exit]
    ELSE IF OpenRaises(p.file)
    THEN [store |-> st, file |-> NoneSeq, workspace |-> p.workspace, exit |-> 1]
    ELSE [store |-> CloseFlush(OpenTruncate(st, p.file), p.file, JsonDump(p.state)),
          file |-> p.file, workspace |-> p.workspace, exit |-> 0]

\* One whole invocation of main() on the file system fs, nothing overlapping:
\* the file system it leaves, the path it wrote (NoneSeq when it wrote
\* nothing), the identifier it resolved and its exit status.
MainIn(fs, inv, now) ==
    LET p == Prepare(inv, now) IN
    IF p.file = NoneSeq
    THEN [fs |-> fs, path |-> NoneSeq, workspace |-> NoneSeq, exit |-> p.exit]
    ELSE LET u == UpdateStatusIn(fs, inv.environ, p) IN
         [fs |-> u.fs, path |-> u.path, workspace |-> p.workspace, exit |-> u.exit]

-----------------------------------------------------------------------------
(* Spec: invocations of main() delivered one after another.                *)

MaxInvocations == 2

NoLog == [tag |-> "none"]
NoPair == [tag |-> "none"]

\* bug variant: the clock can be set back between two invocations
NowSetBack(c) == {c - 1, c, c + 1}

\* datetime.now() does not go back between two reads and may not have advanced
Now(c) == {c, c + 1}

Init ==
    /\ store = <<>>
    /\ clock = 0
    /\ count = 0
    /\ last = NoLog
    /\ procs = <<>>
    /\ flushed = <<>>
    /\ pair = NoPair
    /\ rcwd = <<>>
    /\ rres = NoLog
    /\ meta = <<>>
    /\ tracker = <<>>

Run(inv) ==
    /\ count < MaxInvocations
    /\ \E now \in Now(clock) : \E r \in {Main(store, inv, now)} :
        /\ store' = r.store
        /\ clock' = now
        /\ last' = [tag |-> "done", inv |-> inv, now |-> now,
                    file |-> r.file, workspace |-> r.workspace, exit |-> r.exit,
                    had |-> IF r.file \in DOMAIN store THEN Len(store[r.file])
                            ELSE 0]
    /\ count' = count + 1
    /\ UNCHANGED <<procs, flushed, pair, rcwd, rres, meta, tracker>>

\* the assistant fires a hook: update-status.py with no arguments
HookEvent == \E inv \in Invocations : inv.args = <<>> /\ Run(inv)

\* update-status.py <status> [--tool <tool_name>]
Override == \E inv \in Invocations : inv.args # <<>> /\ Run(inv)

Next == HookEvent \/ Override

Spec == Init /\ [][Next]_vars

\* the same, when no invocation is given an override argument
HookNext == HookEvent

HookSpec == Init /\ [][HookNext]_vars

-----------------------------------------------------------------------------
(* PairSpec: two runs of main() from the same store, on events that differ *)
(* in the tool name only.                                                  *)

\* a store that already holds a record for the worktree
UsedStore ==
    Main(<<>>, Invocation(Object(InputData("PreToolUse", Absent, "Edit", "sess-0",
                                           "/w/STA-123")), <<>>, Worktree), 0).store

PairInit ==
    /\ store \in {<<>>, UsedStore}
    /\ clock = 1
    /\ count = 0
    /\ last = NoLog
    /\ procs = <<>>
    /\ flushed = <<>>
    /\ pair = NoPair
    /\ rcwd = <<>>
    /\ rres = NoLog
    /\ meta = <<>>
    /\ tracker = <<>>

RunPair ==
    /\ pair = NoPair
    /\ \E ev \in EventNames, nt \in NotificationTypes, ta \in ToolNames, tb \in ToolNames :
        LET a == Invocation(Object(InputData(ev, nt, ta, "sess-1", "/w/STA-123")),
                            <<>>, Worktree)
            b == Invocation(Object(InputData(ev, nt, tb, "sess-1", "/w/STA-123")),
                            <<>>, Worktree)
        IN  pair' = [tag |-> "done", a |-> a, b |-> b,
                     ra |-> Main(store, a, clock), rb |-> Main(store, b, clock)]
    /\ UNCHANGED <<store, clock, count, last, procs, flushed, rcwd, rres, meta, tracker>>

PairNext == RunPair

PairSpec == PairInit /\ [][PairNext]_vars

-----------------------------------------------------------------------------
(* ResolverSpec: the three issue-key scans applied to working directories. *)

MaxDepth == 3

Segments ==
    { STA123, MY5, X99,
      <<"s", "t", "a", "-", "1", "2", "3">>,
      <<"m", "y", "-", "r", "e", "p", "o">>,
      <<"s", "r", "c">>,
      <<"A", "B", "-", "1", "-", "2">>,
      <<"A", "1", "-", "2">>,
      <<"A", "B", "-">>,
      <<"-", "7">> }

WorkingDirectories ==
    {<<"/">>} \cup
    UNION {{Path(segs) : segs \in [1..n -> Segments]} : n \in 1..MaxDepth}

ResolverInit ==
    /\ store = <<>>
    /\ clock = 0
    /\ count = 0
    /\ last = NoLog
    /\ procs = <<>>
    /\ flushed = <<>>
    /\ pair = NoPair
    /\ rcwd \in WorkingDirectories
    /\ rres = NoLog
    /\ meta = <<>>
    /\ tracker = <<>>

Resolved(who, out) ==
    /\ rres' = [tag |-> who, out |-> out]
    /\ UNCHANGED <<store, clock, count, last, procs, flushed, pair, rcwd, meta, tracker>>

\* update-status.py get_workspace_name() where git knows no branch
ResolveWorkspaceName == Resolved("update-status", GetWorkspaceName(rcwd, NoRepo.git))

\* post-plan-to-tracker.py get_issue_key()
ResolvePostPlan == Resolved("post-plan-to-tracker", GetIssueKeyPostPlan(rcwd))

\* comment-question-answered.py get_issue_key()
ResolveComment == Resolved("comment-question-answered", GetIssueKeyComment(rcwd))

ResolverNext == ResolveWorkspaceName \/ ResolvePostPlan \/ ResolveComment

ResolverSpec == ResolverInit /\ [][ResolverNext]_vars

-----------------------------------------------------------------------------
(* StoreSpec: invocations of main() one after another on a file system,    *)
(* with the status directory taken from the environment.                   *)

TmpStatusDir == <<"/", "t", "/", "s", "t">>
TmpFile == <<"/", "t", "/", "f">>

\* the file system before any hook ran: the home directory, /t and a regular
\* file /t/f
FreshFs ==
    [q \in {Home, <<"/", "t">>, TmpFile} |-> IF q = TmpFile THEN <<>> ELSE Dir]

\* PAPPARDELLE_STATUS_DIR unset, set to the empty string, set to a directory
\* that does not exist yet, and set to the path of a regular file
Environs ==
    { <<>>,
      [PAPPARDELLE_STATUS_DIR |-> <<>>],
      [PAPPARDELLE_STATUS_DIR |-> TmpStatusDir],
      [PAPPARDELLE_STATUS_DIR |-> TmpFile] }

StoreInvocations ==
    {[Invocation(stdin, args, place) EXCEPT !.environ = environ] :
        stdin \in {ShortEvent, SkippedEvent, [kind |-> "nonobject"]},
        args \in {<<>>, <<"error">>},
        place \in {Worktree, FeatureCheckout},
        environ \in Environs}

StoreInit ==
    /\ store = FreshFs
    /\ clock = 0
    /\ count = 0
    /\ last = NoLog
    /\ procs = <<>>
    /\ flushed = <<>>
    /\ pair = NoPair
    /\ rcwd = <<>>
    /\ rres = NoLog
    /\ meta = <<>>
    /\ tracker = <<>>

RunIn(inv) ==
    /\ count < MaxInvocations
    /\ \E now \in Now(clock) : \E r \in {MainIn(store, inv, now)} :
        /\ store' = r.fs
        /\ clock' = now
        /\ last' = [tag |-> "done", inv |-> inv, now |-> now,
                    path |-> r.path, workspace |-> r.workspace, exit |-> r.exit]
    /\ count' = count + 1
    /\ UNCHANGED <<procs, flushed, pair, rcwd, rres, meta, tracker>>

StoreNext == \E inv \in StoreInvocations : RunIn(inv)

StoreSpec == StoreInit /\ [][StoreNext]_vars

-----------------------------------------------------------------------------
(* IdentitySpec: get_workspace_name() under every outcome of its two git   *)
(* queries, and on pairs of checkouts.                                     *)

Dev == <<"d", "e", "v">>
App == <<"a", "p", "p">>

IdentityDirectories ==
    { MainCheckout.cwd, Worktree.cwd, <<"/">>,
      Path(<<<<"u">>, App, <<"s", "r", "c">>>>),
      Path(<<<<"w">>, X99>>) }

\* git rev-parse --abbrev-ref HEAD: the branch it prints (nothing, for the
\* empty name), a non-zero return code, or an exception from subprocess.run
BranchQueries ==
    {[rc |-> "ok", name |-> n] : n \in {Master, FeatureLogin, STA123, <<>>}}
        \cup {[rc |-> "fail", name |-> <<>>], [rc |-> "raise", name |-> <<>>]}

\* git rev-parse --show-toplevel: the directory it prints, as its segments
\* (none for the root directory "/"), or a failure
ToplevelQueries ==
    {[rc |-> "ok", segs |-> segs] :
        segs \in {<<<<"c", "s">>, StardustLabs>>, <<<<"u">>, App>>, <<>>}}
        \cup {[rc |-> "fail", segs |-> <<>>], [rc |-> "raise", segs |-> <<>>]}

BranchResult(q) ==
    IF q.rc = "ok" THEN GitOk(q.name)
    ELSE IF q.rc = "fail" THEN GitFail ELSE GitRaise

ToplevelResult(q) ==
    IF q.rc = "ok" THEN GitOk(IF q.segs = <<>> THEN <<"/">> ELSE Path(q.segs))
    ELSE IF q.rc = "fail" THEN GitFail ELSE GitRaise

\* physical workspaces: main checkouts of three repositories, two of which
\* have the same directory name under different parents, each on one of two
\* branches; and two issue worktrees
MainCheckouts ==
    {[kind |-> "main", toplevel |-> segs, branch |-> b] :
        segs \in {<<<<"c", "s">>, StardustLabs>>, <<<<"u">>, App>>, <<<<"v">>, App>>},
        b \in {Master, Dev}}

IssueWorktrees ==
    {[kind |-> "worktree", toplevel |-> <<<<"w">>, StardustLabs, key>>, branch |-> key] :
        key \in {STA123, MY5}}

Workspaces == MainCheckouts \cup IssueWorktrees

\* what a hook started at the top of the workspace sees
PlaceOf(ws) ==
    [cwd |-> Path(ws.toplevel),
     git |-> [branch |-> GitOk(ws.branch), toplevel |-> GitOk(Path(ws.toplevel))]]

IdentityInit ==
    /\ store = <<>>
    /\ clock = 0
    /\ count = 0
    /\ last = NoLog
    /\ procs = <<>>
    /\ flushed = <<>>
    /\ pair = NoPair
    /\ rcwd \in IdentityDirectories
    /\ rres = NoLog
    /\ meta = <<>>
    /\ tracker = <<>>

\* get_workspace_name() in rcwd, with one outcome for each git query
ResolveIdentity ==
    /\ rres = NoLog
    /\ \E b \in BranchQueries, t \in ToplevelQueries :
        rres' = [tag |-> "get_workspace_name", branch |-> b, toplevel |-> t,
                 out |-> GetWorkspaceName(rcwd, [branch |-> BranchResult(b),
                                                 toplevel |-> ToplevelResult(t)])]
    /\ UNCHANGED <<store, clock, count, last, procs, flushed, pair, rcwd, meta, tracker>>

\* get_workspace_name() in each of two workspaces
ResolveBoth ==
    /\ pair = NoPair
    /\ \E a \in Workspaces, b \in Workspaces :
        pair' = [tag |-> "resolved", a |-> a, b |-> b,
                 ra |-> GetWorkspaceName(PlaceOf(a).cwd, PlaceOf(a).git),
                 rb |-> GetWorkspaceName(PlaceOf(b).cwd, PlaceOf(b).git)]
    /\ UNCHANGED <<store, clock, count, last, procs, flushed, rcwd, rres, meta, tracker>>

IdentityNext == ResolveIdentity \/ ResolveBoth

IdentitySpec == IdentityInit /\ [][IdentityNext]_vars

-----------------------------------------------------------------------------
(* ConcSpec: invocations of main() that overlap.  Each is its own OS       *)
(* process; the status directory and the clock are all they share.         *)

MaxProcs == 2

Procs == 1..MaxProcs

OverlappingInvocations ==
    { Invocation(LongEvent, <<>>, Worktree),
      Invocation(ShortEvent, <<>>, Worktree),
      Invocation(SkippedEvent, <<>>, Worktree),
      Invocation(ShortEvent, <<>>, MainCheckout) }

ConcInit ==
    /\ store = <<>>
    /\ clock = 0
    /\ count = 0
    /\ last = NoLog
    /\ procs = [p \in Procs |-> [pc |-> "idle"]]
    /\ flushed = <<>>
    /\ pair = NoPair
    /\ rcwd = <<>>
    /\ rres = NoLog
    /\ meta = <<>>
    /\ tracker = <<>>

\* the process is started and runs main() up to line 135: it reads stdin,
\* derives the status, resolves the workspace and assembles the record
Start(p) ==
    /\ procs[p].pc = "idle"
    /\ \E inv \in OverlappingInvocations, now \in Now(clock) :
        \E r \in {Prepare(inv, now)} :
        /\ procs' = [procs EXCEPT ![p] =
                        [pc |-> IF r.file = NoneSeq THEN "done" ELSE "assembled",
                         seq |-> count + 1, inv |-> inv, now |-> now,
                         file |-> r.file, workspace |-> r.workspace,
                         state |-> r.state, buf |-> <<>>,
                         exit |-> r.exit]]
        /\ clock' = now
    /\ count' = count + 1
    /\ UNCHANGED <<store, last, flushed, pair, rcwd, rres, meta, tracker>>

\* line 137, open(status_file, "w")
Open(p) ==
    /\ procs[p].pc = "assembled"
    /\ IF OpenRaises(procs[p].file)
       THEN /\ store' = store
            /\ procs' = [procs EXCEPT ![p].pc = "done", ![p].exit = 1]
       ELSE /\ store' = OpenTruncate(store, procs[p].file)
            /\ procs' = [procs EXCEPT ![p].pc = "opened"]
    /\ UNCHANGED <<clock, count, last, flushed, pair, rcwd, rres, meta, tracker>>

\* line 138, json.dump(state, f, indent=2): the text goes to f's buffer
Dump(p) ==
    /\ procs[p].pc = "opened"
    /\ procs' = [procs EXCEPT ![p].pc = "dumped",
                              ![p].buf = JsonDump(procs[p].state)]
    /\ UNCHANGED <<store, clock, count, last, flushed, pair, rcwd, rres, meta, tracker>>

\* leaving the with block closes f, which flushes the buffer; then sys.exit(0)
Close(p) ==
    /\ procs[p].pc = "dumped"
    /\ store' = CloseFlush(store, procs[p].file, procs[p].buf)
    /\ flushed' = [f \in DOMAIN flushed \cup {procs[p].file} |->
                      IF f = procs[p].file THEN p ELSE flushed[f]]
    /\ procs' = [procs EXCEPT ![p].pc = "done"]
    /\ UNCHANGED <<clock, count, last, pair, rcwd, rres, meta, tracker>>

ConcNext == \E p \in Procs : Start(p) \/ Open(p) \/ Dump(p) \/ Close(p)

ConcSpec == ConcInit /\ [][ConcNext]_vars

-----------------------------------------------------------------------------
(* post-plan-to-tracker.py: the issue metadata directory.  It holds one    *)
(* file <issue key>.json per issue; a file's content is its sequence of    *)
(* lines, as in the status store.                                          *)

MetaFile(issue_key) == issue_key \o <<".", "j", "s", "o", "n">>

\* json.load of a file that parses: the items of the object, in file order
Items(content) == SubSeq(content, 2, Len(content) - 1)

\* dict.get(key, default) on the items of an object
ItemGet(items, key, default) ==
    LET hits == {i \in 1..Len(items) : items[i][1] = key} IN
    IF hits = {} THEN default ELSE items[CHOOSE i \in hits : TRUE][2]

\* d[key] = value: in place when the key is there, appended otherwise
ItemSet(items, key, value) ==
    IF \E i \in 1..Len(items) : items[i][1] = key
    THEN [i \in 1..Len(items) |->
            IF items[i][1] = key THEN <<key, value>> ELSE items[i]]
    ELSE Append(items, <<key, value>>)

\* bug variant: json.JSONDecodeError is not caught
IsNewIssueUncaught(md, issue_key) ==
    LET meta_file == MetaFile(issue_key) IN
    IF meta_file \notin DOMAIN md THEN [raised |-> FALSE, value |-> FALSE]
    ELSE IF ~IsCompleteObject(md[meta_file]) THEN [raised |-> TRUE, value |-> FALSE]
    ELSE [raised |-> FALSE,
          value |-> ItemGet(Items(md[meta_file]), "created_by_pappardelle", FALSE)]

\* is_new_issue(issue_key) on the metadata directory md: whether it raised,
\* and the value it returned
IsNewIssue(md, issue_key) ==
    LET meta_file == MetaFile(issue_key) IN
    IF meta_file \notin DOMAIN md THEN [raised |-> FALSE, value |-> FALSE]
    ELSE IF ~IsCompleteObject(md[meta_file]) THEN [raised |-> FALSE, value |-> FALSE]
    ELSE [raised |-> FALSE,
          value |-> ItemGet(Items(md[meta_file]), "created_by_pappardelle", FALSE)]

\* bug variant: the file is written from an empty object, whatever it held
MarkPlanPostedFresh(md, issue_key) ==
    LET meta_file == MetaFile(issue_key)
        m == ItemSet(<<>>, "plan_posted", TRUE)
    IN  CloseFlush(OpenTruncate(md, meta_file), meta_file, JsonDump(m))

\* mark_plan_posted(issue_key): the metadata directory it leaves
MarkPlanPosted(md, issue_key) ==
    LET meta_file == MetaFile(issue_key)
        loaded == IF meta_file \in DOMAIN md /\ IsCompleteObject(md[meta_file])
                  THEN Items(md[meta_file]) ELSE <<>>
        m == ItemSet(loaded, "plan_posted", TRUE)
    IN  CloseFlush(OpenTruncate(md, meta_file), meta_file, JsonDump(m))

\* metadata files: as written when pappardelle created the issue, for an
\* issue that existed before, an empty object, one already marked, text that
\* is not JSON, and a file cut off before its end
CreatedAt == "2026-01-01T00:00:00Z"
Created == JsonDump(<< <<"created_by_pappardelle", TRUE>>, <<"created_at", CreatedAt>> >>)
Existing == JsonDump(<< <<"created_by_pappardelle", FALSE>> >>)
Bare == JsonDump(<<>>)
Posted ==
    JsonDump(<< <<"created_by_pappardelle", TRUE>>, <<"plan_posted", TRUE>>,
                <<"created_at", CreatedAt>> >>)
NotJson == << <<"not json">> >>
CutOff == << <<"{">>, <<"created_by_pappardelle", TRUE>> >>

MetaContents == {Created, Existing, Bare, Posted, NotJson, CutOff}

IssueKeys == {STA123, MY5}

\* the metadata directories: any of the issues with any content, or no file
MetaDirs ==
    UNION {[{MetaFile(k) : k \in ks} -> MetaContents] : ks \in SUBSET IssueKeys}

(* MetaSpec: is_new_issue and mark_plan_posted on a metadata directory.    *)

MetaInit ==
    /\ store = <<>>
    /\ clock = 0
    /\ count = 0
    /\ last = NoLog
    /\ procs = <<>>
    /\ flushed = <<>>
    /\ pair = NoPair
    /\ rcwd = <<>>
    /\ rres = NoLog
    /\ meta \in MetaDirs
    /\ tracker = <<>>

CallIsNewIssue ==
    \E k \in IssueKeys :
        /\ last' = [tag |-> "is_new_issue", issue |-> k, before |-> meta,
                    result |-> IsNewIssue(meta, k)]
        /\ UNCHANGED <<store, clock, count, procs, flushed, pair, rcwd, rres, meta, tracker>>

CallMarkPlanPosted ==
    \E k \in IssueKeys :
        /\ meta' = MarkPlanPosted(meta, k)
        /\ last' = [tag |-> "mark_plan_posted", issue |-> k, before |-> meta]
        /\ UNCHANGED <<store, clock, count, procs, flushed, pair, rcwd, rres, tracker>>

MetaNext == CallIsNewIssue \/ CallMarkPlanPosted

MetaSpec == MetaInit /\ [][MetaNext]_vars

-----------------------------------------------------------------------------
(* post-plan-to-tracker.py: extract_plan_from_transcript.  A text is a     *)
(* sequence of pieces, each with its length in characters; the empty       *)
(* string is the empty sequence.  A transcript file is a sequence of       *)
(* lines: blank, not JSON, or a JSON message.                              *)

Piece(id, at, len) == [id |-> id, at |-> at, len |-> len]
Text(id, at, len) == <<Piece(id, at, len)>>
Newline == Piece("\n", 0, 1)

\* Python None where a text is expected
NoPlan == <<Piece("None", 0, 0)>>

\* len(text)
RECURSIVE TextLen(_)
TextLen(text) ==
    IF text = <<>> THEN 0 ELSE Head(text).len + TextLen(Tail(text))

\* "\n".join(text_parts)
RECURSIVE JoinLines(_)
JoinLines(text_parts) ==
    IF text_parts = <<>> THEN <<>>
    ELSE IF Len(text_parts) = 1 THEN text_parts[1]
    ELSE text_parts[1] \o <<Newline>> \o JoinLines(Tail(text_parts))

WriteThreshold == 50
TextThreshold == 100

\* lines 121-125: the blocks of one message, last to first
RECURSIVE WriteInBlocks(_, _)
WriteInBlocks(content_blocks, j) ==
    IF j = 0 THEN NoPlan
    ELSE LET block == content_blocks[j]
             content == Get(Get(block, "input", <<>>), "content", <<>>)
         IN  IF /\ Get(block, "type", NoneStr) = "tool_use"
                /\ Get(block, "name", NoneStr) = "Write"
                /\ content # <<>>
                /\ TextLen(content) > WriteThreshold
             THEN content
             ELSE WriteInBlocks(content_blocks, j - 1)

EmptyList == [kind |-> "list", blocks |-> <<>>]

\* lines 114-125, strategy 1: the messages, last to first
RECURSIVE LastWrite(_, _)
LastWrite(messages, i) ==
    IF i = 0 THEN NoPlan
    ELSE LET msg == messages[i]
             content_blocks == Get(msg, "content", EmptyList)
         IN  IF Get(msg, "role", NoneStr) # "assistant" \/ content_blocks.kind # "list"
             THEN LastWrite(messages, i - 1)
             ELSE LET hit == WriteInBlocks(content_blocks.blocks,
                                           Len(content_blocks.blocks))
                  IN  IF hit # NoPlan THEN hit ELSE LastWrite(messages, i - 1)

\* lines 138-141: the text parts of a list of blocks, first to last
RECURSIVE TextParts(_)
TextParts(content_blocks) ==
    IF content_blocks = <<>> THEN <<>>
    ELSE (IF Get(Head(content_blocks), "type", NoneStr) = "text"
          THEN <<Get(Head(content_blocks), "text", <<>>)>> ELSE <<>>)
         \o TextParts(Tail(content_blocks))

\* lines 128-143, strategy 2: the messages, last to first
RECURSIVE LastText(_, _)
LastText(messages, i) ==
    IF i = 0 THEN NoPlan
    ELSE LET msg == messages[i]
             content_blocks == Get(msg, "content", EmptyList)
         IN  IF Get(msg, "role", NoneStr) # "assistant"
             THEN LastText(messages, i - 1)
             ELSE IF content_blocks.kind = "str"
             THEN IF TextLen(content_blocks.text) > TextThreshold
                  THEN content_blocks.text
                  ELSE LastText(messages, i - 1)
             ELSE LET full_text == JoinLines(TextParts(content_blocks.blocks))
                  IN  IF TextLen(full_text) > TextThreshold THEN full_text
                      ELSE LastText(messages, i - 1)

\* lines 98-106: the lines that are not blank and parse
RECURSIVE LoadLines(_)
LoadLines(lines) ==
    IF lines = <<>> THEN <<>>
    ELSE (IF Head(lines).kind = "json" THEN <<Head(lines).value>> ELSE <<>>)
         \o LoadLines(Tail(lines))

\* bug variant of extract_plan_from_transcript: the two strategies swapped
ExtractPlanFromTranscriptTextFirst(files, transcript_path) ==
    IF transcript_path = "" \/ transcript_path \notin DOMAIN files THEN NoPlan
    ELSE LET messages == LoadLines(files[transcript_path]) IN
         IF messages = <<>> THEN NoPlan
         ELSE LET text == LastText(messages, Len(messages)) IN
              IF text # NoPlan THEN text
              ELSE LastWrite(messages, Len(messages))

\* extract_plan_from_transcript(transcript_path), files being the transcript
\* files there are: the plan, or NoPlan
ExtractPlanFromTranscript(files, transcript_path) ==
    IF transcript_path = "" \/ transcript_path \notin DOMAIN files THEN NoPlan
    ELSE LET messages == LoadLines(files[transcript_path]) IN
         IF messages = <<>> THEN NoPlan
         ELSE LET write == LastWrite(messages, Len(messages)) IN
              IF write # NoPlan THEN write
              ELSE LastText(messages, Len(messages))

\* content blocks and messages
WriteBlock(content) ==
    [type |-> "tool_use", name |-> "Write", input |-> [content |-> content]]
EditBlock(content) ==
    [type |-> "tool_use", name |-> "Edit", input |-> [content |-> content]]
TextBlock(text) == [type |-> "text", text |-> text]
Message(role, blocks) ==
    [kind |-> "json",
     value |-> [role |-> role, content |-> [kind |-> "list", blocks |-> blocks]]]
StringMessage(role, text) ==
    [kind |-> "json",
     value |-> [role |-> role, content |-> [kind |-> "str", text |-> text]]]

\* the lines a transcript can have at position at
LinesAt(at) ==
    {Message("assistant", <<WriteBlock(Text("plan", at, 51))>>),
     Message("assistant", <<WriteBlock(Text("stub", at, 50))>>),
     Message("assistant", <<WriteBlock(Text("plan-a", at, 51)),
                            TextBlock(Text("done", at, 120)),
                            WriteBlock(Text("plan-b", at, 60))>>),
     Message("assistant", <<EditBlock(Text("patch", at, 200))>>),
     Message("assistant", <<TextBlock(Text("long", at, 101))>>),
     Message("assistant", <<TextBlock(Text("short", at, 100))>>),
     Message("assistant", <<TextBlock(Text("half-a", at, 50)),
                            TextBlock(Text("half-b", at, 50))>>),
     StringMessage("assistant", Text("said", at, 101)),
     Message("user", <<WriteBlock(Text("pasted", at, 80))>>),
     StringMessage("user", Text("asked", at, 200)),
     [kind |-> "garbage"],
     [kind |-> "blank"]}

MaxMessages == 3

RECURSIVE TranscriptsOfLen(_)
TranscriptsOfLen(n) ==
    IF n = 0 THEN {<<>>}
    ELSE {Append(t, l) : t \in TranscriptsOfLen(n - 1), l \in LinesAt(n)}

\* the transcripts of up to max lines
Transcripts(max) == UNION {TranscriptsOfLen(n) : n \in 0..max}

TranscriptPath == "/t/transcript.jsonl"

(* ExtractSpec: extract_plan_from_transcript on every transcript.          *)

ExtractInit ==
    /\ store = <<>>
    /\ clock = 0
    /\ count = 0
    /\ last = NoLog
    /\ procs = <<>>
    /\ flushed = <<>>
    /\ pair = NoPair
    /\ rcwd = <<>>
    /\ rres = NoLog
    /\ meta = <<>>
    /\ tracker = <<>>

Extracted(files, path) ==
    /\ last = NoLog
    /\ last' = [tag |-> "extract_plan", files |-> files, path |-> path,
                out |-> ExtractPlanFromTranscript(files, path)]
    /\ UNCHANGED <<store, clock, count, procs, flushed, pair, rcwd, rres, meta, tracker>>

\* the transcript file is there
ExtractFromFile ==
    \E t \in Transcripts(MaxMessages) : Extracted([p \in {TranscriptPath} |-> t], TranscriptPath)

\* the path is empty, or names no file
ExtractFromNowhere ==
    \E path \in {"", "/t/missing.jsonl"} :
        Extracted([p \in {TranscriptPath} |->
                      <<Message("assistant", <<WriteBlock(Text("plan", 1, 51))>>)>>],
                  path)

ExtractNext == ExtractFromFile \/ ExtractFromNowhere

ExtractSpec == ExtractInit /\ [][ExtractNext]_vars

-----------------------------------------------------------------------------
(* get_tracker_provider, in both hooks.  configs is the .pappardelle.yml   *)
(* files there are: directory -> file.  A file is readable or not, and its *)
(* text is a sequence of lines "<indent><key>: <value>".                   *)

MaxWalk == 20

\* os.path.dirname of an absolute directory; the root is its own parent
Dirname(path) == IF path = <<>> THEN <<>> ELSE Parent(path)

ConfigLine(indent, key, value) == [indent |-> indent, key |-> key, value |-> value]

\* re.search(r"issue_tracker:\s*\n\s+provider:\s*(\w+)", content): the word
\* captured by the leftmost match, NoneStr without a match.  The line after
\* "issue_tracker:" must be an indented "provider:" with a word after it.
ProviderMatch(lines) ==
    LET hits == {i \in 1..(Len(lines) - 1) :
                    /\ lines[i].key = "issue_tracker"
                    /\ lines[i].value = ""
                    /\ lines[i + 1].indent > 0
                    /\ lines[i + 1].key = "provider"
                    /\ lines[i + 1].value # ""}
    IN  IF hits = {} THEN NoneStr
        ELSE lines[(CHOOSE i \in hits : \A j \in hits : i <= j) + 1].value

\* open, read and search one config file: the provider, "linear" by default
ProviderIn(config) ==
    IF ~config.readable THEN "linear"
    ELSE IF ProviderMatch(config.lines) # NoneStr THEN ProviderMatch(config.lines)
    ELSE "linear"

\* post-plan-to-tracker.py, get_tracker_provider: n is what is left of
\* range(20), visited the number of directories looked at so far
RECURSIVE WalkPostPlan(_, _, _, _)
WalkPostPlan(configs, current, n, visited) ==
    IF n = 0 THEN [out |-> "linear", visited |-> visited]
    ELSE IF current \in DOMAIN configs
    THEN [out |-> ProviderIn(configs[current]), visited |-> visited + 1]
    ELSE IF Dirname(current) = current
    THEN [out |-> "linear", visited |-> visited + 1]
    ELSE WalkPostPlan(configs, Dirname(current), n - 1, visited + 1)

GetTrackerProviderPostPlan(configs, cwd) == WalkPostPlan(configs, cwd, MaxWalk, 0)

\* comment-question-answered.py, get_tracker_provider: the walk finds
\* config_path (NoneSeq when there is none), the file is read afterwards
RECURSIVE WalkComment(_, _, _, _)
WalkComment(configs, current, n, visited) ==
    IF n = 0 THEN [config_path |-> NoneSeq, visited |-> visited]
    ELSE IF current \in DOMAIN configs
    THEN [config_path |-> current, visited |-> visited + 1]
    ELSE IF Dirname(current) = current
    THEN [config_path |-> NoneSeq, visited |-> visited + 1]
    ELSE WalkComment(configs, Dirname(current), n - 1, visited + 1)

GetTrackerProviderComment(configs, cwd) ==
    LET w == WalkComment(configs, cwd, MaxWalk, 0) IN
    IF w.config_path = NoneSeq THEN [out |-> "linear", visited |-> w.visited]
    ELSE [out |-> ProviderIn(configs[w.config_path]), visited |-> w.visited]

\* config files
Readable(lines) == [readable |-> TRUE, lines |-> lines]
JiraConfig ==
    Readable(<<ConfigLine(0, "issue_tracker", ""), ConfigLine(2, "provider", "jira")>>)
LinearConfig ==
    Readable(<<ConfigLine(0, "issue_tracker", ""), ConfigLine(2, "provider", "linear")>>)
GithubConfig ==
    Readable(<<ConfigLine(0, "issue_tracker", ""), ConfigLine(2, "provider", "github")>>)
TeamFirstConfig ==
    Readable(<<ConfigLine(0, "issue_tracker", ""), ConfigLine(2, "team", "STA"),
               ConfigLine(2, "provider", "jira")>>)
NoProviderConfig ==
    Readable(<<ConfigLine(0, "issue_tracker", ""), ConfigLine(2, "team", "STA")>>)
EmptyConfig == Readable(<<>>)
UnreadableConfig == [readable |-> FALSE, lines |-> JiraConfig.lines]

ConfigFiles ==
    {JiraConfig, LinearConfig, GithubConfig, TeamFirstConfig, NoProviderConfig,
     EmptyConfig, UnreadableConfig}

\* the directory d levels below the root, every level named "d"
DirAt(d) == Path([i \in 1..d |-> <<"d">>])

ConfigDepths == {0, 1, 2}
WalkDepths == {0, 1, 2, 19, 20, 21, 22}

\* no config file, one, or two at different levels
ConfigTrees ==
    UNION {[{DirAt(d) : d \in ds} -> ConfigFiles] :
              ds \in {x \in SUBSET ConfigDepths : Cardinality(x) <= 2}}

(* ProviderSpec: get_tracker_provider of either hook, from working         *)
(* directories at several depths below config files.                       *)

ProviderInit ==
    /\ store = <<>>
    /\ clock = 0
    /\ count = 0
    /\ last = NoLog
    /\ procs = <<>>
    /\ flushed = <<>>
    /\ pair = NoPair
    /\ rcwd \in {DirAt(d) : d \in WalkDepths}
    /\ rres = NoLog
    /\ meta = <<>>
    /\ tracker = <<>>

ProviderPostPlan ==
    /\ last = NoLog
    /\ \E configs \in ConfigTrees :
        last' = [tag |-> "get_tracker_provider", hook |-> "post-plan-to-tracker",
                 configs |-> configs,
                 result |-> GetTrackerProviderPostPlan(configs, rcwd)]
    /\ UNCHANGED <<store, clock, count, procs, flushed, pair, rcwd, rres, meta, tracker>>

ProviderComment ==
    /\ last = NoLog
    /\ \E configs \in ConfigTrees :
        last' = [tag |-> "get_tracker_provider", hook |-> "comment-question-answered",
                 configs |-> configs,
                 result |-> GetTrackerProviderComment(configs, rcwd)]
    /\ UNCHANGED <<store, clock, count, procs, flushed, pair, rcwd, rres, meta, tracker>>

ProviderNext == ProviderPostPlan \/ ProviderComment

ProviderSpec == ProviderInit /\ [][ProviderNext]_vars

-----------------------------------------------------------------------------
(* The tracker CLI.  A call is the command line handed to subprocess.run   *)
(* (its fixed words, the issue key, the option that carries the text, the  *)
(* text) together with how the run ended.                                  *)

\* subprocess.run ends with exit status 0, with another exit status, with
\* TimeoutExpired, with FileNotFoundError (no such binary), or otherwise
Outcomes == {"ok", "nonzero", "timeout", "missing", "error"}

CliTimeout == 30

Call(words, issue_key, option, text, outcome) ==
    [cmd |-> words, issue |-> issue_key, option |-> option, text |-> text,
     timeout |-> CliTimeout, outcome |-> outcome]

\* bug variant: only the timeout and the missing binary are caught
CliResultUncaught(call) ==
    CASE call.outcome = "ok" -> [raised |-> FALSE, value |-> TRUE]
      [] call.outcome = "nonzero" -> [raised |-> FALSE, value |-> FALSE]
      [] call.outcome = "timeout" -> [raised |-> FALSE, value |-> FALSE]
      [] call.outcome = "missing" -> [raised |-> FALSE, value |-> FALSE]
      [] OTHER -> [raised |-> TRUE, value |-> FALSE]

\* the try block around subprocess.run: what the function returns, and
\* whether an exception leaves it.  result.returncode == 0 is returned;
\* TimeoutExpired, FileNotFoundError and Exception are caught, each gives False
CliResult(call) ==
    CASE call.outcome = "ok" -> [raised |-> FALSE, value |-> TRUE]
      [] call.outcome = "nonzero" -> [raised |-> FALSE, value |-> FALSE]
      [] call.outcome = "timeout" -> [raised |-> FALSE, value |-> FALSE]
      [] call.outcome = "missing" -> [raised |-> FALSE, value |-> FALSE]
      [] OTHER -> [raised |-> FALSE, value |-> FALSE]

\* the value main() gets back from the call
Succeeded(call) == LET r == CliResult(call) IN ~r.raised /\ r.value

DescriptionHeader == Piece("## Implementation Plan\n\n", 0, 24)
CommentHeader == Piece("### Implementation Plan Accepted\n\n", 0, 36)

\* post-plan-to-tracker.py, update_description: the call it makes
UpdateDescription(provider, issue_key, plan_content, outcome) ==
    LET description == <<DescriptionHeader>> \o plan_content IN
    IF provider = "jira"
    THEN Call(<<"acli", "jira", "workitem", "update", "--key">>, issue_key,
              "--description", description, outcome)
    ELSE Call(<<"linctl", "issue", "update">>, issue_key,
              "--description", description, outcome)

\* post-plan-to-tracker.py, post_comment: the call it makes
PostComment(provider, issue_key, body, outcome) ==
    IF provider = "jira"
    THEN Call(<<"acli", "jira", "workitem", "comment", "--key">>, issue_key,
              "--body", body, outcome)
    ELSE Call(<<"linctl", "comment", "create">>, issue_key, "--body", body, outcome)

\* comment-question-answered.py, post_comment: the call it makes
PostCommentQuestion(provider, issue_key, body, outcome) ==
    IF provider = "jira"
    THEN Call(<<"acli", "jira", "workitem", "comment", "--key">>, issue_key,
              "--body", body, outcome)
    ELSE Call(<<"linctl", "comment", "create">>, issue_key, "--body", body, outcome)

\* a config file whose provider is spelled with a capital
CapitalConfig ==
    Readable(<<ConfigLine(0, "issue_tracker", ""), ConfigLine(2, "provider", "Jira")>>)

\* no config file, or one in the root directory
CliConfigs ==
    {<<>>} \cup {[d \in {DirAt(0)} |-> c] :
                    c \in {JiraConfig, LinearConfig, GithubConfig, CapitalConfig,
                           UnreadableConfig}}

CliTexts == {Text("plan", 2, 300), Text("answer", 1, 40)}

(* CliSpec: one call of update_description or of either post_comment, in   *)
(* a directory below the config file, under every outcome of the CLI run.  *)

CliInit ==
    /\ store = <<>>
    /\ clock = 0
    /\ count = 0
    /\ last = NoLog
    /\ procs = <<>>
    /\ flushed = <<>>
    /\ pair = NoPair
    /\ rcwd = DirAt(2)
    /\ rres = NoLog
    /\ meta = <<>>
    /\ tracker = <<>>

\* the function made the call and returned (or raised)
Called(function, provider, call) ==
    /\ last = NoLog
    /\ last' = [tag |-> "tracker_cli", function |-> function, provider |-> provider,
                call |-> call, result |-> CliResult(call)]
    /\ tracker' = tracker \o <<call>>
    /\ UNCHANGED <<store, clock, count, procs, flushed, pair, rcwd, rres, meta>>

CallUpdateDescription ==
    \E configs \in CliConfigs, issue_key \in IssueKeys, text \in CliTexts,
       outcome \in Outcomes :
        LET provider == GetTrackerProviderPostPlan(configs, rcwd).out IN
        Called("update_description", provider,
               UpdateDescription(provider, issue_key, text, outcome))

CallPostComment ==
    \E configs \in CliConfigs, issue_key \in IssueKeys, text \in CliTexts,
       outcome \in Outcomes :
        LET provider == GetTrackerProviderPostPlan(configs, rcwd).out IN
        Called("post_comment", provider,
               PostComment(provider, issue_key, <<CommentHeader>> \o text, outcome))

CallPostCommentQuestion ==
    \E configs \in CliConfigs, issue_key \in IssueKeys, text \in CliTexts,
       outcome \in Outcomes :
        LET provider == GetTrackerProviderComment(configs, rcwd).out IN
        Called("post_comment_question", provider,
               PostCommentQuestion(provider, issue_key, text, outcome))

CliNext == CallUpdateDescription \/ CallPostComment \/ CallPostCommentQuestion

CliSpec == CliInit /\ [][CliNext]_vars

-----------------------------------------------------------------------------
(* post-plan-to-tracker.py: main().  An invocation is                      *)
(* [stdin, cwd, files, configs, outcome]: what is on stdin, os.getcwd(),   *)
(* the transcript files and config files there are, and how a tracker CLI  *)
(* run would end.                                                          *)

\* bug variant: a new issue gets the description update and the comment
PlanMainBoth(md, inv) ==
    IF inv.stdin.kind = "nonobject" THEN [meta |-> md, calls |-> <<>>, exit |-> 1]
    ELSE IF inv.stdin.kind # "object" THEN [meta |-> md, calls |-> <<>>, exit |-> 0]
    ELSE
    LET input_data == inv.stdin.data
        issue_key == GetIssueKeyPostPlan(inv.cwd)
        plan_content == ExtractPlanFromTranscript(
                            inv.files, Get(input_data, "transcript_path", ""))
        provider == GetTrackerProviderPostPlan(inv.configs, inv.cwd).out
        comment == PostComment(provider, issue_key, <<CommentHeader>> \o plan_content,
                               inv.outcome)
        calls == IF IsNewIssue(md, issue_key).value
                 THEN <<UpdateDescription(provider, issue_key, plan_content,
                                          inv.outcome), comment>>
                 ELSE <<comment>>
    IN  IF \/ Get(input_data, "hook_event_name", "") # "PostToolUse"
           \/ Get(input_data, "tool_name", "") # "ExitPlanMode"
           \/ issue_key = NoneSeq
           \/ plan_content = NoPlan
        THEN [meta |-> md, calls |-> <<>>, exit |-> 0]
        ELSE [meta |-> IF Succeeded(calls[1]) THEN MarkPlanPosted(md, issue_key)
                       ELSE md,
              calls |-> calls, exit |-> 0]

\* bug variant: plan_posted is set whether or not the call succeeded
PlanMainMarksAlways(md, inv) ==
    IF inv.stdin.kind = "nonobject" THEN [meta |-> md, calls |-> <<>>, exit |-> 1]
    ELSE IF inv.stdin.kind # "object" THEN [meta |-> md, calls |-> <<>>, exit |-> 0]
    ELSE
    LET input_data == inv.stdin.data
        issue_key == GetIssueKeyPostPlan(inv.cwd)
        plan_content == ExtractPlanFromTranscript(
                            inv.files, Get(input_data, "transcript_path", ""))
        provider == GetTrackerProviderPostPlan(inv.configs, inv.cwd).out
        call == IF IsNewIssue(md, issue_key).value
                THEN UpdateDescription(provider, issue_key, plan_content, inv.outcome)
                ELSE PostComment(provider, issue_key,
                                 <<CommentHeader>> \o plan_content, inv.outcome)
    IN  IF \/ Get(input_data, "hook_event_name", "") # "PostToolUse"
           \/ Get(input_data, "tool_name", "") # "ExitPlanMode"
           \/ issue_key = NoneSeq
           \/ plan_content = NoPlan
        THEN [meta |-> md, calls |-> <<>>, exit |-> 0]
        ELSE [meta |-> MarkPlanPosted(md, issue_key), calls |-> <<call>>, exit |-> 0]

\* bug variant: once a plan was posted, a new issue gets comments
PlanMainCommentsOncePosted(md, inv) ==
    IF inv.stdin.kind = "nonobject" THEN [meta |-> md, calls |-> <<>>, exit |-> 1]
    ELSE IF inv.stdin.kind # "object" THEN [meta |-> md, calls |-> <<>>, exit |-> 0]
    ELSE
    LET input_data == inv.stdin.data
        issue_key == GetIssueKeyPostPlan(inv.cwd)
        plan_content == ExtractPlanFromTranscript(
                            inv.files, Get(input_data, "transcript_path", ""))
        provider == GetTrackerProviderPostPlan(inv.configs, inv.cwd).out
        posted == /\ MetaFile(issue_key) \in DOMAIN md
                  /\ IsCompleteObject(md[MetaFile(issue_key)])
                  /\ ItemGet(Items(md[MetaFile(issue_key)]), "plan_posted", FALSE)
        call == IF IsNewIssue(md, issue_key).value /\ ~posted
                THEN UpdateDescription(provider, issue_key, plan_content, inv.outcome)
                ELSE PostComment(provider, issue_key,
                                 <<CommentHeader>> \o plan_content, inv.outcome)
    IN  IF \/ Get(input_data, "hook_event_name", "") # "PostToolUse"
           \/ Get(input_data, "tool_name", "") # "ExitPlanMode"
           \/ issue_key = NoneSeq
           \/ plan_content = NoPlan
        THEN [meta |-> md, calls |-> <<>>, exit |-> 0]
        ELSE [meta |-> IF Succeeded(call) THEN MarkPlanPosted(md, issue_key) ELSE md,
              calls |-> <<call>>, exit |-> 0]

\* main() on the metadata directory md: the directory it leaves, the tracker
\* calls it made, its exit status.  Text on stdin that is not JSON ends it
\* with status 0 (line 263); a JSON value that is not an object has no .get
\* (line 266) and ends it with status 1.
PlanMain(md, inv) ==
    IF inv.stdin.kind = "nonobject" THEN [meta |-> md, calls |-> <<>>, exit |-> 1]
    ELSE IF inv.stdin.kind # "object" THEN [meta |-> md, calls |-> <<>>, exit |-> 0]
    ELSE
    LET input_data == inv.stdin.data
        issue_key == GetIssueKeyPostPlan(inv.cwd)
        plan_content == ExtractPlanFromTranscript(
                            inv.files, Get(input_data, "transcript_path", ""))
        provider == GetTrackerProviderPostPlan(inv.configs, inv.cwd).out
        call == IF IsNewIssue(md, issue_key).value
                THEN UpdateDescription(provider, issue_key, plan_content, inv.outcome)
                ELSE PostComment(provider, issue_key,
                                 <<CommentHeader>> \o plan_content, inv.outcome)
    IN  IF \/ Get(input_data, "hook_event_name", "") # "PostToolUse"
           \/ Get(input_data, "tool_name", "") # "ExitPlanMode"
           \/ issue_key = NoneSeq
           \/ plan_content = NoPlan
        THEN [meta |-> md, calls |-> <<>>, exit |-> 0]
        ELSE [meta |-> IF Succeeded(call) THEN MarkPlanPosted(md, issue_key) ELSE md,
              calls |-> <<call>>, exit |-> 0]

\* the JSON object on stdin of the plan hook; Absent leaves a member out
PlanInput(ev, tool, transcript_path) ==
    LET full == [hook_event_name |-> ev, tool_name |-> tool,
                 transcript_path |-> transcript_path]
    IN  [k \in {x \in DOMAIN full : full[x] # Absent} |-> full[k]]

\* transcripts: the plan written to a file, the plan as text only, no plan
WrittenPlan ==
    <<StringMessage("user", Text("asked", 1, 200)),
      Message("assistant", <<TextBlock(Text("intro", 2, 120)),
                             WriteBlock(Text("plan", 2, 300))>>),
      Message("assistant", <<TextBlock(Text("ready", 3, 14))>>)>>
SpokenPlan ==
    <<StringMessage("user", Text("asked", 1, 200)),
      Message("assistant", <<TextBlock(Text("plan", 2, 300))>>)>>
NoPlanYet ==
    <<StringMessage("user", Text("asked", 1, 200)),
      Message("assistant", <<TextBlock(Text("ok", 2, 2))>>)>>

PlanFiles ==
    {[p \in {TranscriptPath} |-> t] : t \in {WrittenPlan, SpokenPlan, NoPlanYet}}

\* no config file, or one in /w that names jira
PlanConfigs == {<<>>, [d \in {Path(<<<<"w">>>>)} |-> JiraConfig]}

Accepted == Object(PlanInput("PostToolUse", "ExitPlanMode", TranscriptPath))

\* ExitPlanMode accepted in the worktree of STA-123, a plan in the transcript
PostingInvocations ==
    {[stdin |-> Accepted, cwd |-> Worktree.cwd, files |-> files,
      configs |-> configs, outcome |-> outcome] :
        files \in {f \in PlanFiles : f[TranscriptPath] # NoPlanYet},
        configs \in PlanConfigs, outcome \in Outcomes}

\* the same with one thing different: the event, the tool, the working
\* directory, the transcript, or what is on stdin
SkippedInvocations ==
    {[stdin |-> stdin, cwd |-> Worktree.cwd,
      files |-> [p \in {TranscriptPath} |-> WrittenPlan],
      configs |-> <<>>, outcome |-> "ok"] :
        stdin \in {Object(PlanInput("Stop", "ExitPlanMode", TranscriptPath)),
                   Object(PlanInput("PostToolUse", "Write", TranscriptPath)),
                   Object(PlanInput("PostToolUse", Absent, TranscriptPath)),
                   Object(PlanInput("PostToolUse", "ExitPlanMode", Absent)),
                   Object(PlanInput("PostToolUse", "ExitPlanMode", "/t/missing.jsonl")),
                   [kind |-> "empty"], [kind |-> "garbage"], [kind |-> "nonobject"]}}
    \cup {[stdin |-> Accepted, cwd |-> MainCheckout.cwd,
           files |-> [p \in {TranscriptPath} |-> WrittenPlan],
           configs |-> <<>>, outcome |-> "ok"],
          [stdin |-> Accepted, cwd |-> Worktree.cwd,
           files |-> [p \in {TranscriptPath} |-> NoPlanYet],
           configs |-> <<>>, outcome |-> "ok"]}

PlanInvocations == PostingInvocations \cup SkippedInvocations

\* metadata without plan_posted: no file for STA-123, or one of any other
\* content; with and without a file of another issue
UnpostedDirs ==
    {md \in MetaDirs :
        /\ \A f \in DOMAIN md : md[f] # Posted
        /\ MetaFile(MY5) \in DOMAIN md => md[MetaFile(MY5)] = Existing}

(* PlanSpec: invocations of the plan hook, one after another.              *)

PlanInit ==
    /\ store = <<>>
    /\ clock = 0
    /\ count = 0
    /\ last = NoLog
    /\ procs = <<>>
    /\ flushed = <<>>
    /\ pair = NoPair
    /\ rcwd = <<>>
    /\ rres = NoLog
    /\ meta \in UnpostedDirs
    /\ tracker = <<>>

RunPlanHook(inv) ==
    /\ count < MaxInvocations
    /\ \E r \in {PlanMain(meta, inv)} :
        /\ meta' = r.meta
        /\ tracker' = tracker \o r.calls
        /\ last' = [tag |-> "plan_hook", inv |-> inv, before |-> meta,
                    calls |-> r.calls, exit |-> r.exit]
    /\ count' = count + 1
    /\ UNCHANGED <<store, clock, procs, flushed, pair, rcwd, rres>>

\* ExitPlanMode was accepted in an issue worktree with a plan to post
PlanAccepted == \E inv \in PostingInvocations : RunPlanHook(inv)

\* the hook fires on something else
PlanSkipped == \E inv \in SkippedInvocations : RunPlanHook(inv)

PlanNext == PlanAccepted \/ PlanSkipped

PlanSpec == PlanInit /\ [][PlanNext]_vars

-----------------------------------------------------------------------------
(* comment-question-answered.py.  A JSON member is [kind, value]: an       *)
(* object ("dict"), a string ("str") or null.  The comment body is a       *)
(* sequence of lines, each the sequence of the strings it is made of; the  *)
(* empty body is the empty sequence.  An answer is the sequence of the     *)
(* labels chosen, the empty sequence when there is none.                   *)

Dict(value) == [kind |-> "dict", value |-> value]
Null == [kind |-> "null", value |-> <<>>]

\* a member that the object on stdin does not have
NoMember == [kind |-> "absent", value |-> <<>>]

BlankLine == <<"">>

\* lines 67-80: the answers by question, from the tool response
AnswersMap(tool_response) ==
    IF tool_response.kind = "dict" /\ "answers" \in DOMAIN tool_response.value
    THEN tool_response.value.answers
    ELSE IF tool_response.kind = "str" /\ tool_response.value.answered
    THEN tool_response.value.pairs
    ELSE <<>>

\* lines 99-111: one line per option, then a blank line
RECURSIVE OptionLines(_, _, _)
OptionLines(options, answer, multi_select) ==
    IF options = <<>> THEN <<BlankLine>>
    ELSE LET opt == Head(options)
             label == Get(opt, "label", "")
             description == Get(opt, "description", "")
             is_selected == \/ answer = <<label>>
                            \/ multi_select /\ \E i \in 1..Len(answer) : answer[i] = label
             marker == IF is_selected THEN "[x] " ELSE ""
         IN  <<IF description # "" THEN <<"- ", marker, label, ": ", description>>
               ELSE <<"- ", marker, label>>>>
             \o OptionLines(Tail(options), answer, multi_select)

\* lines 82-117: the lines of the questions, in order
RECURSIVE QuestionLines(_, _)
QuestionLines(questions, answers_map) ==
    IF questions = <<>> THEN <<>>
    ELSE LET q == Head(questions)
             question_text == Get(q, "question", "Unknown question")
             header == Get(q, "header", "")
             options == Get(q, "options", <<>>)
             multi_select == Get(q, "multiSelect", FALSE)
             answer == Get(answers_map, question_text, <<>>)
         IN  <<IF header # "" THEN <<"? **", header, "**: ", question_text>>
               ELSE <<"? ", question_text>>,
               BlankLine>>
             \o (IF options # <<>> THEN OptionLines(options, answer, multi_select)
                 ELSE <<>>)
             \o (IF answer # <<>> THEN <<<<"**Answer**: ">> \o answer>> ELSE <<>>)
             \o QuestionLines(Tail(questions), answers_map)

\* format_question_answer(tool_input, tool_response), tool_input a dict
\* whose questions are dicts
FormatQuestionAnswer(tool_input, tool_response) ==
    LET questions == Get(tool_input, "questions", <<>>) IN
    IF questions = <<>> THEN <<>>
    ELSE <<<<"### Clarifying Question Answered">>, BlankLine>>
         \o QuestionLines(questions, AnswersMap(tool_response))

\* tool_input.get and q.get raise AttributeError unless tool_input is an
\* object and every question is one
FormatRaises(tool_input) ==
    \/ tool_input.kind # "dict"
    \/ /\ "questions" \in DOMAIN tool_input.value
       /\ \E i \in 1..Len(tool_input.value.questions) :
             tool_input.value.questions[i].kind # "dict"

\* the questions as the dicts they are
Unwrapped(tool_input) ==
    IF "questions" \in DOMAIN tool_input.value
    THEN [questions |->
            [i \in 1..Len(tool_input.value.questions) |->
                tool_input.value.questions[i].value]]
    ELSE <<>>

\* main(): the tracker calls it makes and its exit status.  Text on stdin
\* that is not JSON ends it with status 0 (line 208); a JSON value that is
\* not an object has no .get (line 211) and ends it with status 1, and so
\* does a tool_input or a question that is not an object (lines 57, 83).
QuestionMain(inv) ==
    IF inv.stdin.kind = "nonobject" THEN [calls |-> <<>>, exit |-> 1]
    ELSE IF inv.stdin.kind # "object" THEN [calls |-> <<>>, exit |-> 0]
    ELSE
    LET input_data == inv.stdin.data
        issue_key == GetIssueKeyComment(inv.cwd)
        tool_input == Get(input_data, "tool_input", Dict(<<>>))
        tool_response == Get(input_data, "tool_response", [kind |-> "str", value |-> [answered |-> FALSE, pairs |-> <<>>]])
    IN  IF \/ Get(input_data, "hook_event_name", "") # "PostToolUse"
           \/ Get(input_data, "tool_name", "") # "AskUserQuestion"
           \/ issue_key = NoneSeq
        THEN [calls |-> <<>>, exit |-> 0]
        ELSE IF FormatRaises(tool_input) THEN [calls |-> <<>>, exit |-> 1]
        ELSE LET comment_body == FormatQuestionAnswer(Unwrapped(tool_input),
                                                      tool_response)
             IN  IF comment_body = <<>> THEN [calls |-> <<>>, exit |-> 0]
                 ELSE [calls |-> <<PostCommentQuestion(
                                      GetTrackerProviderComment(inv.configs, inv.cwd).out,
                                      issue_key, comment_body, inv.outcome)>>,
                       exit |-> 0]

\* the JSON object on stdin of the question hook; Absent leaves a member out
QuestionInput(ev, tool, tool_input, tool_response) ==
    LET full == [hook_event_name |-> ev, tool_name |-> tool]
        named == [k \in {x \in DOMAIN full : full[x] # Absent} |-> full[k]]
        with_input == IF tool_input = NoMember THEN named
                      ELSE [k \in DOMAIN named \cup {"tool_input"} |->
                              IF k = "tool_input" THEN tool_input ELSE named[k]]
    IN  IF tool_response = NoMember THEN with_input
        ELSE [k \in DOMAIN with_input \cup {"tool_response"} |->
                IF k = "tool_response" THEN tool_response ELSE with_input[k]]

\* questions and answers
WhichDb ==
    Dict([question |-> "Which database?", header |-> "Database",
          options |-> <<[label |-> "Postgres", description |-> "relational"],
                        [label |-> "Mongo"]>>,
          multiSelect |-> FALSE])
WhichChecks ==
    Dict([question |-> "Which checks?",
          options |-> <<[label |-> "lint"], [label |-> "test"]>>,
          multiSelect |-> TRUE])
FreeForm == Dict([question |-> "What name?"])

AnswersGiven ==
    [q \in {"Which database?", "Which checks?", "What name?"} |->
        IF q = "Which database?" THEN <<"Postgres">>
        ELSE IF q = "Which checks?" THEN <<"lint", "test">>
        ELSE <<"pappardelle">>]

ToolInputs ==
    {Dict([questions |-> qs]) :
        qs \in {<<>>, <<WhichDb>>, <<WhichChecks, FreeForm>>, <<[kind |-> "str", value |-> "q"]>>}}
    \cup {Dict(<<>>), Null, NoMember}

ToolResponses ==
    {Dict([answers |-> AnswersGiven]),
     [kind |-> "str", value |-> [answered |-> TRUE, pairs |-> AnswersGiven]],
     [kind |-> "str", value |-> [answered |-> FALSE, pairs |-> <<>>]],
     NoMember}

\* AskUserQuestion answered in the worktree of STA-123
AnsweredInvocations ==
    {[stdin |-> Object(QuestionInput("PostToolUse", "AskUserQuestion",
                                     tool_input, tool_response)),
      cwd |-> Worktree.cwd, configs |-> configs, outcome |-> outcome] :
        tool_input \in ToolInputs, tool_response \in ToolResponses,
        configs \in PlanConfigs, outcome \in Outcomes}

\* the same with one thing different: the event, the tool, the working
\* directory, or what is on stdin
UnansweredInvocations ==
    {[stdin |-> stdin, cwd |-> Worktree.cwd, configs |-> <<>>, outcome |-> "ok"] :
        stdin \in {Object(QuestionInput("PreToolUse", "AskUserQuestion",
                                        Dict([questions |-> <<WhichDb>>]),
                                        NoMember)),
                   Object(QuestionInput("PostToolUse", "Bash",
                                        Dict([questions |-> <<WhichDb>>]),
                                        NoMember)),
                   Object(QuestionInput(Absent, Absent,
                                        Dict([questions |-> <<WhichDb>>]),
                                        NoMember)),
                   [kind |-> "empty"], [kind |-> "garbage"], [kind |-> "nonobject"]}}
    \cup {[stdin |-> Object(QuestionInput("PostToolUse", "AskUserQuestion",
                                          Dict([questions |-> <<WhichDb>>]),
                                          Dict([answers |-> AnswersGiven]))),
           cwd |-> MainCheckout.cwd, configs |-> <<>>, outcome |-> "ok"]}

(* QuestionSpec: invocations of the question hook, one after another.      *)

QuestionInit ==
    /\ store = <<>>
    /\ clock = 0
    /\ count = 0
    /\ last = NoLog
    /\ procs = <<>>
    /\ flushed = <<>>
    /\ pair = NoPair
    /\ rcwd = <<>>
    /\ rres = NoLog
    /\ meta = <<>>
    /\ tracker = <<>>

RunQuestionHook(inv) ==
    /\ count < MaxInvocations
    /\ \E r \in {QuestionMain(inv)} :
        /\ tracker' = tracker \o r.calls
        /\ last' = [tag |-> "question_hook", inv |-> inv, calls |-> r.calls,
                    exit |-> r.exit]
    /\ count' = count + 1
    /\ UNCHANGED <<store, clock, procs, flushed, pair, rcwd, rres, meta>>

\* AskUserQuestion was answered in an issue worktree
QuestionAnswered == \E inv \in AnsweredInvocations : RunQuestionHook(inv)

\* the hook fires on something else
QuestionSkipped == \E inv \in UnansweredInvocations : RunQuestionHook(inv)

QuestionNext == QuestionAnswered \/ QuestionSkipped

QuestionSpec == QuestionInit /\ [][QuestionNext]_vars

-----------------------------------------------------------------------------
(* Properties of the dispatcher, invocations delivered one after another.  *)

\* the stdin object of a logged invocation, and one of its members
DataOf(inv) == IF inv.stdin.kind = "object" THEN inv.stdin.data ELSE <<>>
Member(inv, key) == Get(DataOf(inv), key, Absent)

\* the outcome the event table of the specification lists
ListedStatus(ev, nt) ==
    CASE ev = "UserPromptSubmit" -> "processing"
      [] ev = "PreToolUse" -> "running_tool"
      [] ev = "PostToolUse" -> "processing"
      [] ev = "PermissionRequest" -> "waiting_for_approval"
      [] ev \in {"Stop", "SubagentStop", "SessionStart"} -> "waiting_for_input"
      [] ev = "SessionEnd" -> "ended"
      [] ev = "PreCompact" -> "compacting"
      [] ev = "Notification" /\ nt = "idle_prompt" -> "waiting_for_input"
      [] OTHER -> "ignore"

Listed(inv) == ListedStatus(Member(inv, "hook_event_name"),
                            Member(inv, "notification_type"))

HookRun(l) == l.tag = "done" /\ l.inv.args = <<>> /\ l.inv.stdin.kind = "object"

\* C1: without an override argument the outcome of an invocation is the one the
\* table lists for its (hook_event_name, notification_type): no write for
\* "ignore", otherwise a record whose status is exactly the listed one.
C1_EventToStatus ==
    HookRun(last) =>
        IF Listed(last.inv) = "ignore"
        THEN last.file = NoneSeq
        ELSE /\ last.file \in DOMAIN store
             /\ Field(store[last.file], "status") = Listed(last.inv)

C1_Witness ==
    /\ HookRun(last)
    /\ Member(last.inv, "hook_event_name") = "Notification"
    /\ Member(last.inv, "notification_type") = "idle_prompt"
    /\ last.file \in DOMAIN store
    /\ Field(store[last.file], "status") = "waiting_for_input"

IgnoreClass(inv) ==
    /\ inv.args = <<>>
    /\ inv.stdin.kind = "object"
    /\ \/ /\ Member(inv, "hook_event_name") = "Notification"
          /\ Member(inv, "notification_type") # "idle_prompt"
       \/ Member(inv, "hook_event_name") \notin
            {"UserPromptSubmit", "PreToolUse", "PostToolUse", "PermissionRequest",
             "Stop", "SubagentStop", "SessionStart", "SessionEnd", "PreCompact",
             "Notification"}

\* C3: an invocation without override whose event is a Notification other than
\* idle_prompt, or an unknown event kind, leaves every file of the store as it
\* was, creates none, and exits with status 0.
C3_IgnoredLeavesStore ==
    [][(last'.tag = "done" /\ IgnoreClass(last'.inv))
          => (store' = store /\ last'.exit = 0)]_vars

C3_Witness ==
    /\ last.tag = "done"
    /\ IgnoreClass(last.inv)
    /\ Member(last.inv, "notification_type") = "permission_prompt"
    /\ count = 2
    /\ StatusFile(STA123) \in DOMAIN store
    /\ Field(store[StatusFile(STA123)], "status") = "running_tool"

\* what the invocation was asked to write, from its input alone
Writes(inv) ==
    /\ inv.stdin.kind # "nonobject"
    /\ inv.args # <<>> \/ Listed(inv) # "ignore"

Given(v) == v # Absent /\ v # NoneStr /\ v # ""

AskedStatus(inv) == IF inv.args # <<>> THEN inv.args[1] ELSE Listed(inv)

AskedTool(inv) ==
    IF inv.args = <<>> THEN Member(inv, "tool_name")
    ELSE IF \E i \in 1..(Len(inv.args) - 1) : inv.args[i] = "--tool"
         THEN inv.args[(CHOOSE i \in 1..(Len(inv.args) - 1) :
                            /\ inv.args[i] = "--tool"
                            /\ \A j \in 1..(i - 1) : inv.args[j] # "--tool") + 1]
    ELSE Absent

AskedSession(inv) ==
    IF Given(Member(inv, "session_id")) THEN Member(inv, "session_id")
    ELSE Get(inv.environ, "CLAUDE_SESSION_ID", "unknown")

\* the file a single record of this invocation makes, and nothing else
RecordOf(inv, workspace, now) ==
    << <<"{">>,
       <<"sessionId", AskedSession(inv)>>,
       <<"workspaceName", workspace>>,
       <<"status", AskedStatus(inv)>>,
       <<"lastUpdate", now>> >>
    \o (IF Given(AskedTool(inv)) THEN << <<"currentTool", AskedTool(inv)>> >> ELSE <<>>)
    \o (IF Given(Member(inv, "hook_event_name"))
        THEN << <<"event", Member(inv, "hook_event_name")>> >> ELSE <<>>)
    \o (IF Given(Member(inv, "cwd")) THEN << <<"cwd", Member(inv, "cwd")>> >> ELSE <<>>)
    \o << <<"}">> >>

\* C4: every invocation that writes leaves, in the file of its identifier,
\* exactly the one record made from its own input (status, currentTool, event
\* and cwd present only when this invocation supplies them), whatever the file
\* held before; every other invocation leaves the store as it was.  So after
\* any sequence the file holds the record of the last invocation that wrote.
C4_LastWriteAlone ==
    [][last'.tag = "done" =>
          IF Writes(last'.inv)
          THEN /\ last'.file \in DOMAIN store'
               /\ store'[last'.file] =
                      RecordOf(last'.inv, last'.workspace, last'.now)
          ELSE store' = store]_vars

C4_Witness ==
    /\ last.tag = "done"
    /\ count = 2
    /\ last.had = 9
    /\ last.inv.args = <<"error">>
    /\ Len(store[last.file]) = 6
    /\ Field(store[last.file], "status") = "error"
    /\ Field(store[last.file], "currentTool") = NoneStr
    /\ Field(store[last.file], "event") = NoneStr
    /\ Field(store[last.file], "cwd") = NoneStr

Json == <<".", "j", "s", "o", "n">>

Changed == {f \in DOMAIN store' : f \notin DOMAIN store \/ store'[f] # store[f]}

\* C8: an invocation changes at most one file, the one named after the
\* identifier it resolved; in the main checkout of stardust-labs on master that
\* is stardust-labs-master.json, and neither master.json nor unknown.json.
C8_OneFile ==
    [][last'.tag = "done" =>
          /\ Cardinality(Changed) <= 1
          /\ DOMAIN store \subseteq DOMAIN store'
          /\ Changed \subseteq {last'.workspace \o Json}
          /\ last'.workspace = NoneSeq => Changed = {}
          /\ ( /\ [cwd |-> last'.inv.cwd, git |-> last'.inv.git] = MainCheckout
               /\ Writes(last'.inv) )
             => Changed \subseteq {StardustLabs \o <<"-">> \o Master \o Json}]_vars

C8_Witness ==
    /\ last.tag = "done"
    /\ [cwd |-> last.inv.cwd, git |-> last.inv.git] = MainCheckout
    /\ (StardustLabs \o <<"-">> \o Master \o Json) \in DOMAIN store
    /\ (Master \o Json) \notin DOMAIN store
    /\ (Unknown \o Json) \notin DOMAIN store

\* C15: an invocation with an override argument writes a record whose status
\* is that argument as given, whether or not it is one of the enumerated
\* values, and whatever stdin holds: an object, nothing, text that is not
\* JSON, or a JSON value that is not an object.
C15_OverrideVerbatim ==
    (last.tag = "done" /\ last.inv.args # <<>>) =>
        /\ last.exit = 0
        /\ last.file \in DOMAIN store
        /\ Field(store[last.file], "status") = last.inv.args[1]

\* C16: without an override argument, stdin that is empty, not JSON, or a
\* JSON value that is not an object is handled like the empty object: nothing
\* is written and the exit status is 0.
C16_BadStdinIsEmptyObject ==
    (last.tag = "done" /\ last.inv.args = <<>> /\ last.inv.stdin.kind # "object") =>
        /\ last.file = NoneSeq
        /\ last.exit = 0

\* the names of the members of a stored object, in file order
Keys(content) == [i \in 1..(Len(content) - 2) |-> content[i + 1][1]]

Has(content, key) == \E i \in 1..Len(Keys(content)) : Keys(content)[i] = key

C20_EnumeratedStatus ==
    \A f \in DOMAIN store :
        Field(store[f], "status") \in
            {"processing", "running_tool", "waiting_for_input",
             "waiting_for_approval", "compacting", "ended"}

C20_Witness ==
    /\ count = 2
    /\ last.tag = "done"
    /\ Member(last.inv, "hook_event_name") = "TeammateIdle"
    /\ last.file = NoneSeq
    /\ StatusFile(STA123) \in DOMAIN store
    /\ Field(store[StatusFile(STA123)], "status") = "compacting"

\* C25: the record an override invocation writes has currentTool exactly when
\* "--tool" is followed by a non-empty argument, and then currentTool is that
\* argument whatever tool_name the event on stdin carries; sessionId, event
\* and cwd are those of the event on stdin when it gives them.
C25_OverrideRecord ==
    (last.tag = "done" /\ last.inv.args # <<>> /\ last.inv.stdin.kind # "nonobject") =>
        /\ last.file \in DOMAIN store
        /\ LET rec == store[last.file]
               inv == last.inv
           IN  /\ Has(rec, "currentTool") <=> Given(AskedTool(inv))
               /\ Has(rec, "currentTool") =>
                      Field(rec, "currentTool") = AskedTool(inv)
               /\ Given(Member(inv, "session_id")) =>
                      Field(rec, "sessionId") = Member(inv, "session_id")
               /\ Given(Member(inv, "hook_event_name")) =>
                      /\ Has(rec, "event")
                      /\ Field(rec, "event") = Member(inv, "hook_event_name")
               /\ Given(Member(inv, "cwd")) =>
                      /\ Has(rec, "cwd")
                      /\ Field(rec, "cwd") = Member(inv, "cwd")

C25_Witness ==
    /\ last.tag = "done"
    /\ last.inv.args = <<"running_tool", "--tool", "Edit">>
    /\ Member(last.inv, "tool_name") = "Bash"
    /\ Member(last.inv, "cwd") = "/w/STA-123"
    /\ last.file \in DOMAIN store
    /\ Field(store[last.file], "currentTool") = "Edit"
    /\ Field(store[last.file], "event") = "PreToolUse"

\* C26: an invocation with an override argument writes a record for every
\* event object on stdin, the events the table ignores included
\* (Notification/permission_prompt, other Notification subtypes, unknown
\* event kinds), and the status written is the override argument.
C26_OverrideSkipsDerivation ==
    (last.tag = "done" /\ last.inv.args # <<>> /\ last.inv.stdin.kind = "object") =>
        /\ last.exit = 0
        /\ last.file \in DOMAIN store
        /\ Len(store[last.file]) > 0
        /\ Field(store[last.file], "status") = last.inv.args[1]
        /\ Field(store[last.file], "lastUpdate") = last.now

C26_Witness ==
    /\ last.tag = "done"
    /\ last.inv.args = <<"waiting_for_input">>
    /\ Listed(last.inv) = "ignore"
    /\ Member(last.inv, "notification_type") = "permission_prompt"
    /\ last.had = 0
    /\ Field(store[last.file], "status") = "waiting_for_input"

\* what is given for the session: the event's session_id when present and
\* non-empty, otherwise the CLAUDE_SESSION_ID of the environment, otherwise
\* the sentinel
SessionGiven(inv) ==
    IF Given(Member(inv, "session_id")) THEN Member(inv, "session_id")
    ELSE IF "CLAUDE_SESSION_ID" \in DOMAIN inv.environ
    THEN inv.environ["CLAUDE_SESSION_ID"]
    ELSE "unknown"

\* C27: the sessionId of every record written is the event's session_id
\* when present and non-empty, otherwise CLAUDE_SESSION_ID of the
\* environment, otherwise "unknown"; it is never the empty string.
C27_SessionPrecedence ==
    (last.tag = "done" /\ last.file # NoneSeq) =>
        /\ Field(store[last.file], "sessionId") = SessionGiven(last.inv)
        /\ Field(store[last.file], "sessionId") # ""

-----------------------------------------------------------------------------
(* The dispatcher on a file system (StoreSpec).                            *)

\* C17: every invocation ends with exit status 0, whatever stdin holds,
\* whatever identifier is resolved and also when the status directory or the
\* status file cannot be written.
C17_AlwaysExitsZero == last.tag = "done" => last.exit = 0

\* the store root the environment asks for
RootFor(environ) ==
    IF /\ "PAPPARDELLE_STATUS_DIR" \in DOMAIN environ
       /\ environ["PAPPARDELLE_STATUS_DIR"] # <<>>
    THEN environ["PAPPARDELLE_STATUS_DIR"]
    ELSE <<"/", "h", "/", ".", "p", "a", "p", "p", "a", "r", "d", "e", "l", "l", "e", "/", "c", "l", "a", "u", "d", "e", "-", "s", "t", "a", "t", "u", "s">>

\* the root, or a directory above it, is a regular file before any hook ran
Occupied(root) ==
    \E k \in 1..Len(root) :
        /\ k = Len(root) \/ root[k + 1] = "/"
        /\ SubSeq(root, 1, k) \in DOMAIN FreshFs
        /\ FreshFs[SubSeq(root, 1, k)] # Dir

\* C18: an invocation that writes stores the record of the identifier w it
\* resolved in <root>/<w>.json, a file directly inside the root, the root
\* being PAPPARDELLE_STATUS_DIR when set and non-empty and the default under
\* the home directory otherwise, and the root is a directory afterwards; for
\* every identifier, one with a path separator included.
C18_RecordPath ==
    (last.tag = "done" /\ Writes(last.inv) /\ ~Occupied(RootFor(last.inv.environ))) =>
        LET root == RootFor(last.inv.environ)
            w == WorkspaceNameIn[[cwd |-> last.inv.cwd, git |-> last.inv.git]]
            path == root \o <<"/">> \o w \o Json
        IN  /\ root \in DOMAIN store /\ store[root] = Dir
            /\ last.path = path
            /\ path \in DOMAIN store
            /\ Field(store[path], "workspaceName") = w
            /\ \A k \in (Len(root) + 2)..Len(path) : path[k] # "/"

-----------------------------------------------------------------------------
(* Two runs on events that differ in the tool name only (PairSpec).        *)

WithoutTool(content) ==
    SelectSeq(content, LAMBDA line : ~(Len(line) = 2 /\ line[1] = "currentTool"))

ToolLine(content) ==
    SelectSeq(content, LAMBDA line : Len(line) = 2 /\ line[1] = "currentTool")

ExpectedToolLine(inv) ==
    IF Given(Member(inv, "tool_name"))
    THEN << <<"currentTool", Member(inv, "tool_name")>> >>
    ELSE <<>>

\* C2: two invocations without override that agree on hook_event_name and
\* notification_type and differ at most in tool_name take the same write/ignore
\* decision and write the same status; their records differ in nothing but
\* currentTool, which is the event's tool_name when it gives one.
C2_ToolIndependent ==
    pair.tag = "done" =>
        /\ (pair.ra.file = NoneSeq) <=> (pair.rb.file = NoneSeq)
        /\ pair.ra.file = pair.rb.file
        /\ DOMAIN pair.ra.store = DOMAIN pair.rb.store
        /\ pair.ra.file = NoneSeq => pair.ra.store = store /\ pair.rb.store = store
        /\ pair.ra.file # NoneSeq =>
            LET ca == pair.ra.store[pair.ra.file]
                cb == pair.rb.store[pair.rb.file]
            IN  /\ Field(ca, "status") = Field(cb, "status")
                /\ Field(ca, "status") = Listed(pair.a)
                /\ WithoutTool(ca) = WithoutTool(cb)
                /\ ToolLine(ca) = ExpectedToolLine(pair.a)
                /\ ToolLine(cb) = ExpectedToolLine(pair.b)

C2_Witness ==
    /\ pair.tag = "done"
    /\ Member(pair.a, "hook_event_name") = "PermissionRequest"
    /\ Member(pair.a, "tool_name") = "AskUserQuestion"
    /\ Member(pair.b, "tool_name") = Absent
    /\ pair.ra.file # NoneSeq
    /\ Field(pair.ra.store[pair.ra.file], "status") = "waiting_for_approval"
    /\ Field(pair.rb.store[pair.rb.file], "status") = "waiting_for_approval"
    /\ Field(pair.ra.store[pair.ra.file], "currentTool") = "AskUserQuestion"
    /\ Field(pair.rb.store[pair.rb.file], "currentTool") = NoneStr

-----------------------------------------------------------------------------
(* The issue-key scans (ResolverSpec).                                     *)

\* the shape of an issue key: split at the first hyphen, a prefix of two or
\* more uppercase letters and a non-empty suffix of digits
IssueKeyShaped(part) ==
    LET h == Find(part, "-") IN
    /\ h >= 3
    /\ \A i \in 1..(h - 1) : part[i] \in UpperChars
    /\ Len(part) > h
    /\ \A i \in (h + 1)..Len(part) : part[i] \in DigitChars

ShapedAt(cwd) ==
    {i \in 1..Len(Split(cwd, "/")) : IssueKeyShaped(Split(cwd, "/")[i])}

\* the resolver that ran took a path segment for an issue key
TookSegment == rres.tag # "none" /\ rres.out # NoneSeq /\ rres.out # Unknown

\* C9: in each of the three resolvers a segment is taken for an issue key if
\* and only if it has the issue-key shape (prefix of length >= 2).
C9_OnlyShapedSegments ==
    rres.tag # "none" =>
        /\ TookSegment => IssueKeyShaped(rres.out)
        /\ ShapedAt(rcwd) # {} => TookSegment

\* C10: a working directory with exactly one issue-key-shaped segment resolves
\* to that segment under the root-to-leaf scan of update-status and under the
\* leaf-to-root scan of post-plan-to-tracker.
C10_SingleKeyEitherOrder ==
    (rres.tag \in {"update-status", "post-plan-to-tracker"}
        /\ Cardinality(ShapedAt(rcwd)) = 1)
    => \A i \in ShapedAt(rcwd) : rres.out = Split(rcwd, "/")[i]

\* the segments of the working directory, root first
PartsOf(cwd) == Split(cwd, "/")

\* C11: for a working directory with exactly two issue-key-shaped segments,
\* post-plan-to-tracker's leaf-to-root scan returns the one nearest the leaf
\* and the root-to-leaf scans of update-status and comment-question-answered
\* return the one nearest the root, so the two orders give different answers
\* whenever the two segments differ.
C11_ScanOrders ==
    (rres.tag # "none" /\ Cardinality(ShapedAt(rcwd)) = 2)
    => \E i \in ShapedAt(rcwd), j \in ShapedAt(rcwd) :
          /\ i < j
          /\ rres.out = IF rres.tag = "post-plan-to-tracker"
                        THEN PartsOf(rcwd)[j]
                        ELSE PartsOf(rcwd)[i]

-----------------------------------------------------------------------------
(* Workspace identity (IdentitySpec).                                      *)

\* the path scan of get_workspace_name takes no segment of the directory
NoKeyInPath(cwd) ==
    \A i \in 1..Len(PartsOf(cwd)) :
        LET part == PartsOf(cwd)[i]
            h == Find(part, "-")
        IN  ~ /\ h >= 2
              /\ \A k \in 1..(h - 1) : part[k] \in UpperChars
              /\ Len(part) > h
              /\ \A k \in (h + 1)..Len(part) : part[k] \in DigitChars

Last(seq) == seq[Len(seq)]

IdentityRun == rres.tag = "get_workspace_name"

C13_CollisionFree ==
    (pair.tag = "resolved" /\ pair.a # pair.b) => pair.ra # pair.rb

\* C14: whatever the directory and whatever the outcome of the two queries,
\* get_workspace_name returns a non-empty identifier without surrounding
\* white space; a query that fails or raises only moves the resolution on to
\* the next fallback, the last of which is "unknown".
C14_AlwaysAnIdentifier ==
    IdentityRun =>
        /\ rres.out # NoneSeq
        /\ Len(rres.out) > 0
        /\ rres.out[1] \notin SpaceChars /\ Last(rres.out) \notin SpaceChars
        /\ (NoKeyInPath(rcwd) /\ rres.branch.rc \in {"fail", "raise"})
              => rres.out = Unknown
        /\ (NoKeyInPath(rcwd) /\ rres.branch.rc = "ok" /\ rres.branch.name # <<>>
                /\ rres.toplevel.rc \in {"fail", "raise"})
              => rres.out = rres.branch.name
        /\ ~NoKeyInPath(rcwd) => \E i \in 1..Len(PartsOf(rcwd)) : rres.out = PartsOf(rcwd)[i]

C14_Witness ==
    /\ IdentityRun
    /\ rcwd = MainCheckout.cwd
    /\ rres.branch = [rc |-> "ok", name |-> Master]
    /\ rres.toplevel.rc = "raise"
    /\ rres.out = Master

-----------------------------------------------------------------------------
(* Overlapping invocations (ConcSpec).                                     *)

AllDone == \A p \in Procs : procs[p].pc = "done"

Writers(f) == {p \in Procs : procs[p].pc # "idle" /\ procs[p].file = f}

IsPrefix(a, b) == Len(a) <= Len(b) /\ SubSeq(b, 1, Len(a)) = a

\* C5 as stated: once all invocations have finished, each file holds the
\* record of the most recently delivered invocation that wrote to it.
C5_MostRecentlyDelivered ==
    AllDone =>
        \A p \in Procs :
            (procs[p].file # NoneSeq
                /\ \A q \in Writers(procs[p].file) : procs[q].seq <= procs[p].seq)
            => store[procs[p].file] = JsonDump(procs[p].state)

\* C5, amended: once all invocations have finished, each file starts with the
\* complete record of the invocation that closed it last, whichever of the
\* overlapping invocations that is.
C5_LastCloseWins ==
    AllDone =>
        \A f \in DOMAIN store :
            /\ f \in DOMAIN flushed
            /\ flushed[f] \in Writers(f)
            /\ IsPrefix(JsonDump(procs[flushed[f]].state), store[f])

\* the invocation delivered first closed last, and its record is what is left
C5_Witness ==
    /\ AllDone
    /\ \E p \in Procs, q \in Procs :
        /\ procs[p].file # NoneSeq
        /\ procs[q].file = procs[p].file
        /\ procs[p].seq < procs[q].seq
        /\ procs[p].state # procs[q].state
        /\ flushed[procs[p].file] = p
        /\ store[procs[p].file] = JsonDump(procs[p].state)

\* C6: once all invocations have finished, each file is exactly the complete
\* record of one of the invocations that wrote to it.
C6_OneCompleteRecord ==
    AllDone =>
        \A f \in DOMAIN store :
            \E p \in Writers(f) : store[f] = JsonDump(procs[p].state)

\* the identifier an invocation resolves, and the file named after it
FileOf(inv) == GetWorkspaceName(inv.cwd, inv.git) \o Json

SameLine(a, b) == Len(a) = Len(b) /\ \A i \in 1..Len(a) : a[i] = b[i]

\* every line of the file was written by an invocation that resolved this file
OwnLinesOnly(f) ==
    \A i \in 1..Len(store[f]) :
        \E p \in Procs :
            /\ procs[p].pc # "idle"
            /\ FileOf(procs[p].inv) = f
            /\ \E j \in 1..Len(JsonDump(procs[p].state)) :
                SameLine(store[f][i], JsonDump(procs[p].state)[j])

-----------------------------------------------------------------------------
(* The issue metadata (MetaSpec).                                          *)

\* the file holds a JSON object with this item
HasItem(content, key, value) ==
    /\ IsCompleteObject(content)
    /\ \E i \in 2..(Len(content) - 1) : content[i][1] = key /\ content[i][2] = value

KeysOf(content) == {content[i][1] : i \in 2..(Len(content) - 1)}

\* C21: mark_plan_posted(issue) leaves the issue's metadata file a JSON
\* object with plan_posted = true; every other item the file held before is
\* still there with its value and no item is added; when there was no file
\* the new file holds plan_posted = true and nothing else; the files of the
\* other issues are as they were.
C21_MarkKeepsFields ==
    last.tag = "mark_plan_posted" =>
        LET f == MetaFile(last.issue)
            old == last.before
        IN  /\ f \in DOMAIN meta
            /\ HasItem(meta[f], "plan_posted", TRUE)
            /\ DOMAIN meta = DOMAIN old \cup {f}
            /\ \A g \in DOMAIN old : g # f => meta[g] = old[g]
            /\ (f \in DOMAIN old /\ IsCompleteObject(old[f])) =>
                  /\ KeysOf(meta[f]) = KeysOf(old[f]) \cup {"plan_posted"}
                  /\ \A i \in 2..(Len(old[f]) - 1) :
                        old[f][i][1] # "plan_posted" =>
                            HasItem(meta[f], old[f][i][1], old[f][i][2])
            /\ f \notin DOMAIN old => meta[f] = JsonDump(<< <<"plan_posted", TRUE>> >>)

C21_Witness ==
    /\ last.tag = "mark_plan_posted"
    /\ last.issue = STA123
    /\ MetaFile(STA123) \in DOMAIN last.before
    /\ last.before[MetaFile(STA123)] = Created
    /\ MetaFile(MY5) \in DOMAIN meta
    /\ meta[MetaFile(MY5)] = Existing
    /\ HasItem(meta[MetaFile(STA123)], "created_at", CreatedAt)
    /\ HasItem(meta[MetaFile(STA123)], "plan_posted", TRUE)

-----------------------------------------------------------------------------
(* The plan in the transcript (ExtractSpec).                               *)

\* the messages of the file read, in order
MessagesRead ==
    IF last.path \in DOMAIN last.files
    THEN LET lines == last.files[last.path]
             kept == {i \in 1..Len(lines) : lines[i].kind = "json"}
         IN  [n \in 1..Cardinality(kept) |->
                 lines[CHOOSE i \in kept :
                          Cardinality({k \in kept : k <= i}) = n].value]
    ELSE <<>>

FromAssistant(msg) == msg.role = "assistant"

\* <<i, j>>: block j of message i is an assistant Write longer than 50
WritePositions(msgs) ==
    {ij \in (1..Len(msgs)) \X (1..3) :
        /\ FromAssistant(msgs[ij[1]])
        /\ msgs[ij[1]].content.kind = "list"
        /\ ij[2] <= Len(msgs[ij[1]].content.blocks)
        /\ LET b == msgs[ij[1]].content.blocks[ij[2]] IN
            /\ b.type = "tool_use"
            /\ b.name = "Write"
            /\ TextLen(b.input.content) > 50}

Later(a, b) == a[1] > b[1] \/ (a[1] = b[1] /\ a[2] >= b[2])

\* the text of an assistant message: its string, or its text blocks joined
TextOf(msg) ==
    IF msg.content.kind = "str" THEN msg.content.text
    ELSE LET bs == msg.content.blocks
             texts == {j \in 1..Len(bs) : bs[j].type = "text"}
         IN  JoinLines([n \in 1..Cardinality(texts) |->
                           bs[CHOOSE j \in texts :
                                 Cardinality({k \in texts : k <= j}) = n].text])

TextPositions(msgs) ==
    {i \in 1..Len(msgs) : FromAssistant(msgs[i]) /\ TextLen(TextOf(msgs[i])) > 100}

\* C23: extract_plan_from_transcript returns the content of the most recent
\* assistant Write tool call whose content is longer than 50 characters,
\* wherever assistant text appears in the transcript; when there is no such
\* Write, the text of the most recent assistant message whose text is longer
\* than 100 characters; None when the file is missing, when the transcript
\* is empty, and when it holds neither.
C23_WriteBeforeText ==
    last.tag = "extract_plan" =>
        LET msgs == MessagesRead
            ws == WritePositions(msgs)
            ts == TextPositions(msgs)
        IN  IF ws # {}
            THEN LET w == CHOOSE a \in ws : \A b \in ws : Later(a, b) IN
                 last.out = msgs[w[1]].content.blocks[w[2]].input.content
            ELSE IF ts # {}
            THEN LET t == CHOOSE a \in ts : \A b \in ts : a >= b IN
                 last.out = TextOf(msgs[t])
            ELSE last.out = NoPlan

\* a Write of 51 characters, then a longer assistant text after it
C23_Witness ==
    /\ last.tag = "extract_plan"
    /\ last.path = TranscriptPath
    /\ Len(last.files[TranscriptPath]) = 3
    /\ last.files[TranscriptPath][3] =
           Message("assistant", <<TextBlock(Text("long", 3, 101))>>)
    /\ last.out = Text("plan", 1, 51)

-----------------------------------------------------------------------------
(* The tracker provider (ProviderSpec).                                    *)

\* the directories the walk looks at: the working directory and its
\* ancestors, at most MaxWalk of them, nearest first
RECURSIVE Upward(_, _)
Upward(dir, n) ==
    IF n = 0 THEN <<>>
    ELSE IF dir = <<>> THEN <<dir>>
    ELSE <<dir>> \o Upward(Parent(dir), n - 1)

\* the nearest config file on the walk, EmptyConfig standing for none
NearestConfig(configs, cwd) ==
    LET up == Upward(cwd, 20)
        found == {i \in 1..Len(up) : up[i] \in DOMAIN configs}
    IN  IF found = {} THEN EmptyConfig
        ELSE configs[up[CHOOSE i \in found : \A j \in found : i <= j]]

\* what the file sets issue_tracker.provider to, as YAML reads it: a
\* "provider" line among the indented lines below "issue_tracker:"
ProviderSet(config) ==
    LET lines == config.lines
        hits == {<<i, j>> \in (1..Len(lines)) \X (1..Len(lines)) :
                    /\ i < j
                    /\ lines[i].key = "issue_tracker"
                    /\ lines[i].indent = 0
                    /\ lines[j].key = "provider"
                    /\ \A k \in (i + 1)..j : lines[k].indent > 0}
    IN  IF ~config.readable \/ hits = {} THEN NoneStr
        ELSE lines[(CHOOSE h \in hits : TRUE)[2]].value

\* C24: get_tracker_provider returns "linear" or "jira" and nothing else:
\* "jira" when the nearest .pappardelle.yml on the way up from the working
\* directory sets issue_tracker.provider to jira, "linear" when there is no
\* config file, when it cannot be read and when it sets no provider; the walk
\* looks at no more than 20 directories.
C24_LinearOrJira ==
    last.tag = "get_tracker_provider" =>
        LET set == ProviderSet(NearestConfig(last.configs, rcwd)) IN
        /\ last.result.out \in {"linear", "jira"}
        /\ last.result.visited <= 20
        /\ set = "jira" => last.result.out = "jira"
        /\ set = NoneStr => last.result.out = "linear"

-----------------------------------------------------------------------------
(* The plan hook (PlanSpec).                                               *)

DescriptionUpdates ==
    {<<"linctl", "issue", "update">>, <<"acli", "jira", "workitem", "update", "--key">>}
Comments ==
    {<<"linctl", "comment", "create">>, <<"acli", "jira", "workitem", "comment", "--key">>}

\* the invocation is one the hook acts on: PostToolUse for ExitPlanMode,
\* an issue key in the path, a plan in the transcript
ActsOn(inv) ==
    /\ inv.stdin.kind = "object"
    /\ "hook_event_name" \in DOMAIN inv.stdin.data
    /\ inv.stdin.data.hook_event_name = "PostToolUse"
    /\ "tool_name" \in DOMAIN inv.stdin.data
    /\ inv.stdin.data.tool_name = "ExitPlanMode"
    /\ GetIssueKeyPostPlan(inv.cwd) # NoneSeq
    /\ "transcript_path" \in DOMAIN inv.stdin.data
    /\ ExtractPlanFromTranscript(inv.files, inv.stdin.data.transcript_path) # NoPlan

FlaggedNew(md, issue_key) ==
    /\ MetaFile(issue_key) \in DOMAIN md
    /\ HasItem(md[MetaFile(issue_key)], "created_by_pappardelle", TRUE)

\* C28: on a PostToolUse event for ExitPlanMode, in a directory whose path
\* has an issue key and with a transcript that has a plan, the plan hook
\* makes exactly one tracker call for that issue: a description update when
\* is_new_issue is true, a comment when it is not.  On anything else it
\* makes no tracker call and leaves the issue metadata as it was.
C28_OneCallWhenAccepted ==
    last.tag = "plan_hook" =>
        IF ActsOn(last.inv)
        THEN /\ Len(last.calls) = 1
             /\ last.calls[1].issue = GetIssueKeyPostPlan(last.inv.cwd)
             /\ last.calls[1].cmd \in
                   (IF FlaggedNew(last.before, last.calls[1].issue)
                    THEN DescriptionUpdates ELSE Comments)
        ELSE /\ last.calls = <<>>
             /\ meta = last.before

\* a skipped invocation, then a description update through acli
C28_Witness ==
    /\ last.tag = "plan_hook"
    /\ count = 2
    /\ Len(tracker) = 1
    /\ Len(last.calls) = 1
    /\ last.calls[1].cmd = <<"acli", "jira", "workitem", "update", "--key">>
    /\ last.calls[1].issue = STA123
    /\ FlaggedNew(last.before, STA123)

\* C29: plan_posted = true in an issue's metadata means that a description
\* update or a comment for that issue ended with exit status 0 before; an
\* invocation whose tracker call fails (exit status not 0, timeout, binary
\* missing) leaves the metadata as it was and exits with status 0.
C29_PostedOnlyAfterSuccess ==
    /\ \A k \in IssueKeys :
          (MetaFile(k) \in DOMAIN meta /\ HasItem(meta[MetaFile(k)], "plan_posted", TRUE))
              => \E i \in 1..Len(tracker) :
                    /\ tracker[i].issue = k
                    /\ tracker[i].cmd \in DescriptionUpdates \cup Comments
                    /\ tracker[i].outcome = "ok"
    /\ (last.tag = "plan_hook" /\ last.calls # <<>> /\ last.calls[1].outcome # "ok")
          => (meta = last.before /\ last.exit = 0)

C29_Witness ==
    /\ last.tag = "plan_hook"
    /\ count = 2
    /\ Len(tracker) = 2
    /\ tracker[1].outcome = "timeout"
    /\ tracker[2].outcome = "ok"
    /\ last.before = [f \in {MetaFile(STA123)} |-> Created]
    /\ HasItem(meta[MetaFile(STA123)], "plan_posted", TRUE)

-----------------------------------------------------------------------------
(* The question hook (QuestionSpec).                                       *)

\* the invocation is one the hook posts for: PostToolUse for
\* AskUserQuestion, an issue key in the path, at least one question
PostsFor(inv) ==
    /\ inv.stdin.kind = "object"
    /\ "hook_event_name" \in DOMAIN inv.stdin.data
    /\ inv.stdin.data.hook_event_name = "PostToolUse"
    /\ "tool_name" \in DOMAIN inv.stdin.data
    /\ inv.stdin.data.tool_name = "AskUserQuestion"
    /\ GetIssueKeyComment(inv.cwd) # NoneSeq
    /\ "tool_input" \in DOMAIN inv.stdin.data
    /\ inv.stdin.data.tool_input.kind = "dict"
    /\ "questions" \in DOMAIN inv.stdin.data.tool_input.value
    /\ Len(inv.stdin.data.tool_input.value.questions) >= 1

\* C30: the question hook posts exactly one comment when the event is
\* PostToolUse for AskUserQuestion, the working directory has an issue key
\* and the tool input has at least one question, and makes no tracker call in
\* every other case; it exits with status 0 in all cases, also when posting
\* fails.
C30_OneCommentAlwaysExitZero ==
    last.tag = "question_hook" =>
        /\ IF PostsFor(last.inv)
           THEN /\ Len(last.calls) = 1
                /\ last.calls[1].cmd \in Comments
           ELSE last.calls = <<>>
        /\ last.exit = 0

-----------------------------------------------------------------------------
(* C31: every tracker CLI call (update_description and both post_comment)  *)
(* returns a boolean and never raises: a non-zero exit, a timeout of the   *)
(* bounded call, a missing binary and any other exception give False, the  *)
(* value is True only for exit code 0; every provider other than exactly   *)
(* "jira" is dispatched to the Linear CLI.                                 *)

C31_FailureIsFalse ==
    last.tag = "tracker_cli" =>
        /\ ~last.result.raised
        /\ last.result.value = (last.call.outcome = "ok")
        /\ last.call.timeout = CliTimeout
        /\ last.call.cmd[1] = IF last.provider = "jira" THEN "acli" ELSE "linctl"
        /\ tracker = <<last.call>>

C31_Witness ==
    /\ last.tag = "tracker_cli"
    /\ last.function = "update_description"
    /\ last.provider = "Jira"
    /\ last.call.outcome = "error"
    /\ last.call.cmd[1] = "linctl"
    /\ last.result = [raised |-> FALSE, value |-> FALSE]

-----------------------------------------------------------------------------
(* C32: a reader that reads a workspace's record file at any moment, also  *)
(* while an invocation is between opening and closing it, finds no file or *)
(* one complete record, never an empty or partly written file.  What a     *)
(* reader finds at a moment is what the store holds in that state.         *)

C32_ReaderSeesCompleteRecord ==
    \A f \in DOMAIN store :
        \E p \in Writers(f) : store[f] = JsonDump(procs[p].state)

-----------------------------------------------------------------------------
(* C33: lastUpdate of a workspace's record between committed writes.  An   *)
(* invocation has committed when it closed the file (pc "done", exit 0).   *)

\* the invocations that wrote and closed file f
Committed(f) ==
    {p \in Procs : procs[p].pc = "done" /\ procs[p].file = f /\ procs[p].exit = 0}

\* the lastUpdate values a file holds (none while it is empty)
LastUpdates(content) ==
    {content[i][2] : i \in {j \in 1..Len(content) :
                              Len(content[j]) = 2 /\ content[j][1] = "lastUpdate"}}

-----------------------------------------------------------------------------
(* C34: the two root-to-leaf scans agree.  For every working directory,    *)
(* get_issue_key of comment-question-answered.py returns the issue key k   *)
(* exactly when get_workspace_name of update-status.py returns k from its  *)
(* path scan, before it asks git; where one finds no key the other finds   *)
(* none (and the workspace name comes from git, "unknown" without a        *)
(* repository).                                                            *)

C34_ScansAgree ==
    /\ rres.tag = "comment-question-answered" =>
          /\ rres.out = ScanWorkspaceName(rcwd)
          /\ rres.out # NoneSeq => rres.out = GetWorkspaceName(rcwd, NoRepo.git)
    /\ rres.tag = "update-status" =>
          IF GetIssueKeyComment(rcwd) # NoneSeq
          THEN rres.out = GetIssueKeyComment(rcwd)
          ELSE ScanWorkspaceName(rcwd) = NoneSeq /\ rres.out = Unknown

\* two issue-shaped components, the one nearer the root has a one-letter
\* prefix: both scans take it, the leaf-to-root scan of the plan hook does not
C34_Witness ==
    /\ rres.tag = "comment-question-answered"
    /\ rres.out = X99
    /\ rcwd = Path(<<X99, STA123>>)
    /\ GetWorkspaceName(rcwd, NoRepo.git) = X99
    /\ GetIssueKeyPostPlan(rcwd) = STA123

-----------------------------------------------------------------------------
(* C35: whether the plan hook replaces the description or adds a comment   *)
(* depends on created_by_pappardelle only, never on plan_posted.  An       *)
(* invocation that posts leaves is_new_issue as it was, and would have     *)
(* made the same call had plan_posted been set before; so all calls for    *)
(* one issue are of one kind: each accepted plan for a new issue replaces  *)
(* the description again, each one for an existing issue adds one more     *)
(* comment.                                                                *)

C35_RoutingIgnoresPlanPosted ==
    /\ (last.tag = "plan_hook" /\ ActsOn(last.inv)) =>
          LET k == GetIssueKeyPostPlan(last.inv.cwd) IN
          /\ Len(last.calls) = 1
          /\ tracker[Len(tracker)] = last.calls[1]
          /\ last.calls[1].cmd \in DescriptionUpdates <=> FlaggedNew(last.before, k)
          /\ PlanMain(MarkPlanPosted(last.before, k), last.inv).calls = last.calls
          /\ IsNewIssue(meta, k).value = IsNewIssue(last.before, k).value
    /\ \A i \in 1..Len(tracker), j \in 1..Len(tracker) :
          tracker[i].issue = tracker[j].issue =>
              (tracker[i].cmd \in DescriptionUpdates <=> tracker[j].cmd \in DescriptionUpdates)

\* a second accepted plan for a new issue whose plan was already posted:
\* the description is replaced again
C35_Witness ==
    /\ last.tag = "plan_hook"
    /\ Len(tracker) = 2
    /\ \A i \in 1..2 :
          /\ tracker[i].cmd = <<"linctl", "issue", "update">>
          /\ tracker[i].issue = STA123
          /\ tracker[i].outcome = "ok"
    /\ HasItem(last.before[MetaFile(STA123)], "plan_posted", TRUE)
    /\ FlaggedNew(meta, STA123)

====
